---- MODULE Spec2Model ----
(***************************************************************************)
(* The per-call session bridge of the telephony service                    *)
(* (src/telephony/main.py): handle_client, _process_media_message,         *)
(* _gemini_reader and _end_call_monitor as one state machine.  The three   *)
(* asyncio tasks of a session interleave at their await points; each       *)
(* action is the code between two await points of one task.                *)
(***************************************************************************)
EXTENDS Integers, Sequences, FiniteSets, TLC

(***************************************************************************)
(* Bounds of the model.                                                    *)
(***************************************************************************)
MaxAudio == 2        \* chunk sizes and the samples of one audio unit: 1..MaxAudio
MaxMsgs == 3         \* messages of the two peers in one call, those that are
                     \* ignored before identity not counted
MaxEntries == 3      \* entries of a transcript handed to transcript_processor.py
MaxClock == 4        \* ticks counted of the time spent waiting for identity

(***************************************************************************)
(* Program constants.                                                      *)
(***************************************************************************)
MaxStartMessages == 50   \* for _ in range(50)
RecvTimeoutTicks == 2     \* wait_for(..., timeout=10.0): time is counted in ticks of 5 s
max_wait == 15           \* max_wait = 15 (seconds)
PollsPerSecond == 2      \* asyncio.sleep(0.5): time is counted in half seconds
GraceHalfSeconds == 2    \* asyncio.sleep(1.0)
DebounceCount == 3       \* if empty_count >= 3
PolicyCloseCode == 1008
NormalCloseCode == 1000

UNKNOWN == "UNKNOWN"
None == "None"

(***************************************************************************)
(* Config (config.py).  ConfigAttrs is the set of attributes and           *)
(* properties the frozen dataclass defines; reading any other attribute    *)
(* raises AttributeError.                                                  *)
(***************************************************************************)
ConfigAttrs ==
    { "HOST", "PORT", "WS_PATH", "DEBUG", "LOG_MEDIA", "LOG_TRANSCRIPTS",
      "SAVE_TRANSCRIPTS", "TRANSCRIPTS_DIR", "AUTO_END_CALL", "END_CALL_PHRASES",
      "GCP_PROJECT_ID", "GEMINI_LOCATION", "GEMINI_MODEL", "GEMINI_VOICE",
      "TELEPHONY_SR", "GEMINI_INPUT_SR", "GEMINI_OUTPUT_SR",
      "AUDIO_BUFFER_MS_INPUT", "AUDIO_BUFFER_MS_OUTPUT",
      "AUDIO_BUFFER_SAMPLES_INPUT", "AUDIO_BUFFER_SAMPLES_OUTPUT", "model_uri" }

HasAttr(name) == name \in ConfigAttrs

\* The flag settings a session is checked under: the defaults, and each of
\* AUTO_END_CALL, LOG_TRANSCRIPTS, SAVE_TRANSCRIPTS switched.
ConfigFlags ==
    { [DEBUG |-> FALSE, LOG_TRANSCRIPTS |-> TRUE, SAVE_TRANSCRIPTS |-> TRUE,
       AUTO_END_CALL |-> FALSE],
      [DEBUG |-> FALSE, LOG_TRANSCRIPTS |-> TRUE, SAVE_TRANSCRIPTS |-> TRUE,
       AUTO_END_CALL |-> TRUE],
      [DEBUG |-> FALSE, LOG_TRANSCRIPTS |-> FALSE, SAVE_TRANSCRIPTS |-> TRUE,
       AUTO_END_CALL |-> FALSE],
      [DEBUG |-> FALSE, LOG_TRANSCRIPTS |-> TRUE, SAVE_TRANSCRIPTS |-> FALSE,
       AUTO_END_CALL |-> FALSE] }

WithChunks(f, i, o) ==
    [DEBUG |-> f.DEBUG, LOG_TRANSCRIPTS |-> f.LOG_TRANSCRIPTS,
     SAVE_TRANSCRIPTS |-> f.SAVE_TRANSCRIPTS, AUTO_END_CALL |-> f.AUTO_END_CALL,
     AUDIO_BUFFER_SAMPLES_INPUT |-> i, AUDIO_BUFFER_SAMPLES_OUTPUT |-> o]

DefaultFlags ==
    [DEBUG |-> FALSE, LOG_TRANSCRIPTS |-> TRUE, SAVE_TRANSCRIPTS |-> TRUE,
     AUTO_END_CALL |-> FALSE]

\* every flag setting at the largest chunk size, every chunk size under the
\* default flags
Config ==
    { WithChunks(f, MaxAudio, MaxAudio) : f \in ConfigFlags }
    \cup { WithChunks(DefaultFlags, c, c) : c \in 1..MaxAudio }

(***************************************************************************)
(* Sequence helpers.                                                       *)
(***************************************************************************)
Range(s) == { s[i] : i \in 1..Len(s) }

Take(s, n) == SubSeq(s, 1, IF n < Len(s) THEN n ELSE Len(s))

Drop(s, n) == SubSeq(s, n + 1, Len(s))

RECURSIVE Flatten(_)
Flatten(ss) == IF ss = <<>> THEN <<>> ELSE Head(ss) \o Flatten(Tail(ss))

\* the samples numbered from+1 .. from+n, in order
Samples(from, n) == [i \in 1..n |-> from + i]

VARIABLES
    cfg,                       \* cfg = Config()
    env,                       \* how many messages the two peers send at most
    hpc,                       \* position of handle_client
    attempts,                  \* iterations done of the identity loop (0 once it is left)
    idClock,                   \* ticks the pending receive (recv) and the identity loop
                               \* (phase) have lasted (0 once the loop is left)
    buffered_media,            \* buffered_media, not yet flushed
    start_msg,                 \* start_msg of handle_client: <<>> for None, else << m >>
    ucid,                      \* session.ucid
    phone_number,              \* session.phone_number
    input_buffer,              \* session.input_buffer
    output_buffer,             \* session.output_buffer
    closed,                    \* session.closed
    end_after_turn,            \* session.end_after_turn
    transcripts,               \* session.transcripts
    current_agent_transcript,  \* session.current_agent_transcript
    gconn,                     \* the AI backend connection
    wsOpen,                    \* the telephony connection is open
    rpc,                       \* position of the _gemini_reader task
    mpc,                       \* position of the _end_call_monitor task
    empty_count,               \* empty_count of _end_call_monitor
    waited,                    \* waited of _end_call_monitor, in half seconds
    \* what the session has done, recorded for the properties
    inCount,                   \* audio samples received from the telephony peer
    outCount,                  \* audio samples received from the AI backend
    msgs,                      \* messages received from the two peers
    appended,                  \* samples appended to input_buffer, in order
    preMedia,                  \* samples of media received before identity
    aiSent,                    \* chunks sent to the AI backend
    telSent,                   \* messages sent to the telephony peer
    wsClose,                   \* close calls made on the telephony connection
    gemClose,                  \* tasks that attempted gemini.close()
    saves,                     \* calls of _save_transcript that wrote a transcript
    posts,                     \* calls of process_and_post_completion
    tdPath,                    \* the path that led handle_client to its finally
    raised,                    \* handle_client ended by raising
    elapsed,                   \* half seconds the monitor slept since it saw end_after_turn
    completedBy,               \* how the monitor's wait ended: debounce or ceiling
    polls,                     \* what the last polls of the wait saw: TRUE for an empty buffer
    intrMark,                  \* outCount when the last interrupted signal was received
    intrPos,                   \* Len(telSent) when the last interrupted signal was received
    intrFragments,             \* fragments in the accumulator when it was received
    staleFragments,            \* how many of them the accumulator still holds
    toolLog,                   \* function calls received and toolLog sent or tried
    \* transcript_processor.py, which runs on a saved transcript
    sample,                    \* the arguments of extract_outcome_from_transcripts
    extracted,                 \* what it returned, <<>> before the call
    \* the transcript part of _gemini_reader, run on its own
    handled                    \* the backend messages it handled, in order


vars ==
    << cfg, env, hpc, attempts, buffered_media, start_msg, ucid, phone_number,
       input_buffer, output_buffer, closed, end_after_turn, transcripts,
       current_agent_transcript, gconn, wsOpen, rpc, mpc, empty_count, waited,
       inCount, outCount, msgs, appended, preMedia, aiSent, telSent,
       wsClose, gemClose, saves, posts, tdPath, raised, elapsed, completedBy,
       intrMark, intrPos, sample, extracted, polls, idClock, intrFragments,
       staleFragments, handled, toolLog >>

constVars == << cfg, env, sample, extracted, handled >>
idVars == << attempts, idClock, buffered_media, start_msg, ucid, phone_number, preMedia >>
inVars == << input_buffer, appended, aiSent >>
readerVars ==
    << output_buffer, end_after_turn, transcripts, current_agent_transcript,
       outCount, telSent, intrMark, intrPos, intrFragments, staleFragments,
       toolLog >>
monVars == << closed, empty_count, waited, elapsed, completedBy, polls >>
tdVars == << tdPath, saves, posts, gemClose, raised, gconn, wsOpen >>

(***************************************************************************)
(* handle_client, lines 521-531: the session as constructed, the backend   *)
(* connect started, the handler waiting for its first message.             *)
(***************************************************************************)
\* the clocks as the handler starts, just after the accept
ClockStart == [recv |-> 0, phase |-> 0]

SessionInit(configs, envs) ==
    /\ cfg \in configs
    /\ env \in envs
    /\ hpc = "await_identity"
    /\ attempts = 0
    /\ idClock = ClockStart
    /\ buffered_media = <<>>
    /\ start_msg = <<>>
    /\ ucid = UNKNOWN
    /\ phone_number = None
    /\ input_buffer = <<>>
    /\ output_buffer = <<>>
    /\ closed = FALSE
    /\ end_after_turn = FALSE
    /\ transcripts = <<>>
    /\ current_agent_transcript = <<>>
    /\ gconn = "connecting"
    /\ wsOpen = TRUE
    /\ rpc = "none"
    /\ mpc = "none"
    /\ empty_count = 0
    /\ waited = 0
    /\ inCount = 0
    /\ outCount = 0
    /\ msgs = 0
    /\ appended = <<>>
    /\ preMedia = <<>>
    /\ aiSent = <<>>
    /\ telSent = <<>>
    /\ wsClose = {}
    /\ gemClose = {}
    /\ saves = 0
    /\ posts = 0
    /\ tdPath = "none"
    /\ raised = FALSE
    /\ elapsed = 0
    /\ completedBy = "none"
    /\ polls = <<>>
    /\ intrMark = 0
    /\ intrPos = 0
    /\ intrFragments = 0
    /\ staleFragments = 0
    /\ toolLog = <<>>
    /\ handled = <<>>

\* no transcript has been handed to transcript_processor.py
NoSample ==
    [transcripts |-> <<>>, reference_date |-> [year |-> 1, month |-> 1, day |-> 1, hour |-> 0]]

InitWith(configs, envs) ==
    /\ SessionInit(configs, envs)
    /\ sample = NoSample
    /\ extracted = <<>>

\* The peers of a call: pre messages at most that are ignored before identity,
\* msgs other messages at most, what the backend sends (ai) and which start
\* messages the telephony peer sends (starts).  Time is counted in the calls
\* that are timed, which are short; in the others the timeout of a receive
\* may fire at any receive.
TimedEnvs ==
    [pre : {MaxMsgs - 1}, msgs : {1}, ai : {"audio"}, starts : {"few"},
     timed : {TRUE}]

CallEnvs ==
    [pre : {MaxStartMessages}, msgs : {MaxMsgs}, ai : {"audio", "text"},
     starts : {"few"}, timed : {FALSE}]
      \cup TimedEnvs

Init == InitWith(Config, CallEnvs)

(***************************************************************************)
(* Identity resolution, handle_client lines 596-625.                       *)
(***************************************************************************)
\* an or-chain that reads the nested stream id before the top-level ids
IdFieldsNestedFirst ==
    << "start.stream_sid", "ucid", "start.ucid", "stream_sid", "start.call_sid",
       "data.ucid" >>

\* the candidate id fields of a start message, in the order the code reads them
IdFields ==
    << "ucid", "start.ucid", "stream_sid", "start.stream_sid", "start.call_sid",
       "data.ucid" >>

\* A start message: ids is the set of id fields that are present and
\* non-empty (each carries its own name as value), phone the caller number
\* found in the message or None.
FewStartMsgs ==
    { [ids |-> {}, phone |-> None],
      [ids |-> {"ucid", "start.stream_sid"}, phone |-> "start.phone"] }

\* every combination of id fields, without a phone number
AllStartMsgs == [ids : SUBSET Range(IdFields), phone : {None}]

StartMsgs == IF env.starts = "all" THEN AllStartMsgs ELSE FewStartMsgs

\* parse_qs(urlparse(path).query).get("phone"): the request path is the
\* configured WS_PATH, without a query
urlPhone == None

RECURSIVE FirstPresent(_, _, _)
FirstPresent(fields, ids, default) ==
    IF fields = <<>> THEN default
    ELSE IF Head(fields) \in ids THEN Head(fields)
    ELSE FirstPresent(Tail(fields), ids, default)

\* session.ucid = (start_msg.get("ucid") or ... or session.ucid)
ResolveUcid(m, current) == FirstPresent(IdFields, m.ids, current)

\* session.phone_number = (start_msg.get("phone") or ...), then the URL query
ResolvePhone(m) == IF m.phone # None THEN m.phone ELSE urlPhone

(***************************************************************************)
(* The finally block of handle_client, lines 736-790.  _save_transcript    *)
(* swallows its own failures; the test of cfg.WEBHOOK_ENABLED reads an     *)
(* attribute Config does not define, which raises AttributeError out of    *)
(* the finally block before the webhook and before gemini.close().  When   *)
(* the handler returns or raises, the server closes the connection.        *)
(***************************************************************************)
Finally(path) ==
    /\ hpc' = "done"
    /\ tdPath' = path
    /\ wsOpen' = FALSE
    /\ saves' = IF cfg.SAVE_TRANSCRIPTS /\ transcripts # <<>> THEN saves + 1 ELSE saves
    /\ IF HasAttr("WEBHOOK_ENABLED")
         THEN /\ posts' = IF cfg.WEBHOOK_ENABLED /\ transcripts # <<>>
                               /\ phone_number # None
                            THEN posts + 1 ELSE posts
              /\ gemClose' = gemClose \cup {"handler"}
              /\ gconn' = "closed"
              /\ raised' = FALSE
         ELSE /\ posts' = posts
              /\ gemClose' = gemClose
              /\ gconn' = gconn
              /\ raised' = TRUE

NoFinally == UNCHANGED tdVars

\* create_task is undone by task.cancel(): a task that has not finished ends
Cancelled(pc) == IF pc \in {"none", "ended", "done", "cancelled"} THEN pc ELSE "cancelled"

HandlerClose(code, reason) ==
    wsClose' = wsClose \cup {[by |-> "handler", code |-> code, reason |-> reason]}

(***************************************************************************)
(* AWAITING_IDENTITY: the loop of lines 551-583 and the checks after it,   *)
(* lines 585-594.                                                          *)
(***************************************************************************)
\* a loop that gives up at its last iteration whenever no start message came
LoopContinueNeedsStart(u) ==
    /\ ucid' = u
    /\ start_msg' = start_msg
    /\ IF attempts + 1 < MaxStartMessages
         THEN /\ attempts' = attempts + 1
              /\ idClock' = [idClock EXCEPT !.recv = 0]
              /\ hpc' = "await_identity"
              /\ UNCHANGED << phone_number, wsClose >>
              /\ NoFinally
         ELSE /\ attempts' = 0
              /\ idClock' = ClockStart
              /\ HandlerClose(PolicyCloseCode, "Expected start event")
              /\ UNCHANGED phone_number
              /\ Finally("no_start")

\* The end of an iteration that neither broke out nor returned; u is
\* session.ucid after it.
LoopContinue(u) ==
    /\ ucid' = u
    /\ start_msg' = start_msg
    /\ IF attempts + 1 < MaxStartMessages
         THEN /\ attempts' = attempts + 1
              /\ idClock' = [idClock EXCEPT !.recv = 0]
              /\ hpc' = "await_identity"
              /\ UNCHANGED << phone_number, wsClose >>
              /\ NoFinally
         ELSE /\ attempts' = 0
              /\ idClock' = ClockStart
              /\ IF u # UNKNOWN
                   THEN /\ hpc' = "connect_wait"
                        /\ phone_number' = urlPhone
                        /\ UNCHANGED wsClose
                        /\ NoFinally
                   ELSE /\ HandlerClose(PolicyCloseCode, "Expected start event")
                        /\ UNCHANGED phone_number
                        /\ Finally("no_start")

Awaiting == hpc = "await_identity" /\ attempts < MaxStartMessages /\ wsOpen

\* a start message: break, resolve the identity and the phone number
RecvStart ==
    /\ Awaiting
    /\ \E m \in StartMsgs :
         /\ start_msg' = << m >>
         /\ ucid' = ResolveUcid(m, ucid)
         /\ phone_number' = ResolvePhone(m)
    /\ hpc' = "connect_wait"
    /\ attempts' = 0
    /\ idClock' = ClockStart
    /\ NoFinally
    /\ UNCHANGED << buffered_media, preMedia, inCount, wsClose, msgs, rpc, mpc >>
    /\ UNCHANGED << constVars, inVars, readerVars, monVars >>

\* a JSON media message before identity, of either payload format
RecvPreMedia ==
    /\ Awaiting
    /\ msgs < env.msgs
    /\ msgs' = msgs + 1
    /\ \E kind \in {"alaw", "legacy"}, n \in 1..MaxAudio,
          sid \in IF ucid = UNKNOWN THEN BOOLEAN ELSE {TRUE} :
         /\ buffered_media' = Append(buffered_media,
                [kind |-> kind, samples |-> Samples(inCount, n)])
         /\ preMedia' = preMedia \o Samples(inCount, n)
         /\ inCount' = inCount + n
         /\ LoopContinue(IF ucid = UNKNOWN /\ sid THEN "media.stream_sid" ELSE ucid)
    /\ UNCHANGED << rpc, mpc >>
    /\ UNCHANGED << constVars, inVars, readerVars, monVars >>

\* a binary PCM frame before identity: msg is None, continue
RecvPreBinary ==
    /\ Awaiting
    /\ msgs < env.msgs
    /\ msgs' = msgs + 1
    /\ \E n \in 1..MaxAudio :
         /\ preMedia' = preMedia \o Samples(inCount, n)
         /\ inCount' = inCount + n
    /\ LoopContinue(ucid)
    /\ UNCHANGED << buffered_media, rpc, mpc >>
    /\ UNCHANGED << constVars, inVars, readerVars, monVars >>

\* an unparsable text frame, or a message with another event: continue
RecvPreIgnored ==
    /\ Awaiting
    /\ attempts < env.pre
    /\ LoopContinue(ucid)
    /\ UNCHANGED << buffered_media, preMedia, inCount, msgs, rpc, mpc >>
    /\ UNCHANGED << constVars, inVars, readerVars, monVars >>

\* a terminate handled with break where the code has return
RecvTerminateBreaks ==
    /\ Awaiting
    /\ hpc' = "connect_wait"
    /\ attempts' = 0
    /\ idClock' = ClockStart
    /\ tdPath' = "terminate"
    /\ UNCHANGED << saves, posts, gemClose, raised, gconn, wsOpen >>
    /\ UNCHANGED << buffered_media, start_msg, ucid, phone_number, preMedia, inCount, wsClose, msgs, rpc, mpc >>
    /\ UNCHANGED << constVars, inVars, readerVars, monVars >>

\* stop, end or close before start: return
RecvTerminate ==
    /\ Awaiting
    /\ Finally("terminate")
    /\ attempts' = 0
    /\ idClock' = ClockStart
    /\ UNCHANGED << buffered_media, start_msg, ucid, phone_number, preMedia, inCount, wsClose, msgs, rpc, mpc >>
    /\ UNCHANGED << constVars, inVars, readerVars, monVars >>

\* asyncio.wait_for raises TimeoutError: lines 727-729
RecvTimeout ==
    /\ Awaiting
    /\ env.timed => idClock.recv = RecvTimeoutTicks
    /\ HandlerClose(PolicyCloseCode, "Timeout waiting for start event")
    /\ Finally("timeout")
    /\ attempts' = 0
    /\ idClock' = ClockStart
    /\ UNCHANGED << buffered_media, start_msg, ucid, phone_number, preMedia, inCount, msgs, rpc, mpc >>
    /\ UNCHANGED << constVars, inVars, readerVars, monVars >>

\* a tick passes while the handler waits in wait_for(client_ws.recv(), 10.0):
\* the timeout is armed anew by every receive, nothing times the loop
IdentityTick ==
    /\ Awaiting
    /\ env.timed
    /\ idClock.recv < RecvTimeoutTicks
    /\ idClock' = [recv |-> idClock.recv + 1,
                   phase |-> IF idClock.phase < MaxClock THEN idClock.phase + 1 ELSE MaxClock]
    /\ NoFinally
    /\ UNCHANGED << hpc, attempts, buffered_media, start_msg, ucid, phone_number, preMedia,
                    inCount, wsClose, msgs, rpc, mpc >>
    /\ UNCHANGED << constVars, inVars, readerVars, monVars >>

\* client_ws.recv() raises ConnectionClosed: lines 730-731
RecvClosed ==
    /\ Awaiting
    /\ Finally("conn_lost")
    /\ attempts' = 0
    /\ idClock' = ClockStart
    /\ UNCHANGED << buffered_media, start_msg, ucid, phone_number, preMedia, inCount, wsClose, msgs, rpc, mpc >>
    /\ UNCHANGED << constVars, inVars, readerVars, monVars >>

(***************************************************************************)
(* The backend connect started at line 540 and awaited at line 632.  The   *)
(* handler reads its outcome nowhere before that await, so the connect     *)
(* resolves, either way, while the handler waits there.                    *)
(***************************************************************************)
ConnectResolve ==
    /\ hpc = "connect_wait"
    /\ gconn = "connecting"
    /\ gconn' \in {"connected", "failed"}
    /\ UNCHANGED << hpc, inCount, wsClose, msgs, rpc, mpc, tdPath, saves, posts,
                    gemClose, raised, wsOpen >>
    /\ UNCHANGED << constVars, idVars, inVars, readerVars, monVars >>

\* the tasks created whatever the connect came to
AwaitConnectUnchecked ==
    /\ hpc = "connect_wait"
    /\ gconn # "connecting"
    /\ hpc' = "pump"
    /\ rpc' = "run"
    /\ mpc' = "watch"
    /\ NoFinally
    /\ UNCHANGED << inCount, wsClose, msgs >>
    /\ UNCHANGED << constVars, idVars, inVars, readerVars, monVars >>

\* await gemini_connect_task, then create the reader and the monitor tasks
AwaitConnect ==
    /\ hpc = "connect_wait"
    /\ gconn # "connecting"
    /\ IF gconn = "connected"
         THEN /\ hpc' = "pump"
              /\ rpc' = "run"
              /\ mpc' = "watch"
              /\ NoFinally
         ELSE /\ Finally("connect_failed")
              /\ UNCHANGED << rpc, mpc >>
    /\ UNCHANGED << inCount, wsClose, msgs >>
    /\ UNCHANGED << constVars, idVars, inVars, readerVars, monVars >>


(***************************************************************************)
(* ACTIVE, the telephony side: the flush of the buffered media (lines      *)
(* 643-645), the receive loop (lines 647-714) and the chunk loop of        *)
(* _process_media_message (lines 240-249), which the binary and the legacy *)
(* branch repeat (lines 666-676, 701-711).                                 *)
(***************************************************************************)
AUDIO_BUFFER_SAMPLES_INPUT == cfg.AUDIO_BUFFER_SAMPLES_INPUT
AUDIO_BUFFER_SAMPLES_OUTPUT == cfg.AUDIO_BUFFER_SAMPLES_OUTPUT

\* chunk = buffer[:C]
Chunk(buffer, C) == Take(buffer, C)

\* a slice that starts one sample late: buffer[C + 1:]
RestSkipsOne(buffer, C) == Drop(buffer, C + 1)

\* buffer = buffer[C:]
Rest(buffer, C) == Drop(buffer, C)

\* while len(buffer) >= C
Ready(buffer, C) == Len(buffer) >= C

\* session.input_buffer.extend(samples), then the chunk loop is entered
ExtendInput(samples) ==
    /\ input_buffer' = input_buffer \o samples
    /\ appended' = appended \o samples
    /\ aiSent' = aiSent
    /\ hpc' = IF Ready(input_buffer \o samples, AUDIO_BUFFER_SAMPLES_INPUT) THEN "drain" ELSE "pump"

\* the messages _process_media_message decodes: those with media.payload
HasPayload(m) == m.kind = "alaw"

\* for buffered_msg in buffered_media: await _process_media_message(...)
FlushBuffered ==
    /\ hpc = "pump"
    /\ buffered_media # <<>>
    /\ buffered_media' = Tail(buffered_media)
    /\ IF HasPayload(Head(buffered_media))
         THEN ExtendInput(Head(buffered_media).samples)
         ELSE hpc' = "pump" /\ UNCHANGED inVars
    /\ NoFinally
    /\ UNCHANGED << attempts, idClock, start_msg, ucid, phone_number, preMedia, inCount,
                    wsClose, msgs, rpc, mpc >>
    /\ UNCHANGED << constVars, readerVars, monVars >>

\* one iteration of the chunk loop: cut a chunk, await the send to the backend
SendChunkToAI ==
    /\ hpc = "drain"
    /\ input_buffer' = Rest(input_buffer, AUDIO_BUFFER_SAMPLES_INPUT)
    /\ appended' = appended
    /\ \E ok \in BOOLEAN :
         /\ ok => gconn = "connected"
         /\ IF ok
              THEN /\ aiSent' = Append(aiSent, Chunk(input_buffer, AUDIO_BUFFER_SAMPLES_INPUT))
                   /\ hpc' = IF Ready(Rest(input_buffer, AUDIO_BUFFER_SAMPLES_INPUT), AUDIO_BUFFER_SAMPLES_INPUT) THEN "drain" ELSE "pump"
                   /\ NoFinally
              ELSE /\ aiSent' = aiSent
                   /\ Finally("exception")
    /\ UNCHANGED << inCount, wsClose, msgs, rpc, mpc >>
    /\ UNCHANGED << constVars, idVars, readerVars, monVars >>

Receiving ==
    /\ hpc = "pump"
    /\ buffered_media = <<>>
    /\ wsOpen
    /\ msgs < env.msgs

\* an audio unit that decodes: A-law payload, legacy sample array, binary PCM
TelMedia ==
    /\ Receiving
    /\ msgs' = msgs + 1
    /\ \E n \in 1..MaxAudio :
         /\ inCount' = inCount + n
         /\ ExtendInput(Samples(inCount, n))
    /\ NoFinally
    /\ UNCHANGED << wsClose, rpc, mpc >>
    /\ UNCHANGED << constVars, idVars, readerVars, monVars >>

\* an undecodable payload, an unparsable text frame, an empty sample array,
\* a message with another event: nothing changes, the loop continues
TelDropped ==
    /\ Receiving
    /\ msgs' = msgs + 1
    /\ hpc' = "pump"
    /\ NoFinally
    /\ UNCHANGED << inCount, wsClose, rpc, mpc >>
    /\ UNCHANGED << constVars, idVars, inVars, readerVars, monVars >>

\* an odd-length binary frame (struct.error) or a sample array that is not a
\* list of integers: the exception leaves the loop, lines 734-735
TelMalformed ==
    /\ Receiving
    /\ msgs' = msgs + 1
    /\ Finally("exception")
    /\ UNCHANGED << inCount, wsClose, rpc, mpc >>
    /\ UNCHANGED << constVars, idVars, inVars, readerVars, monVars >>

\* lines 716-725: both tasks are cancelled and awaited
CancelTasks ==
    /\ rpc' = Cancelled(rpc)
    /\ mpc' = Cancelled(mpc)

\* a stop, end or close event: break
TelStop ==
    /\ Receiving
    /\ msgs' = msgs + 1
    /\ CancelTasks
    /\ Finally("stop")
    /\ UNCHANGED << inCount, wsClose >>
    /\ UNCHANGED << constVars, idVars, inVars, readerVars, monVars >>

\* the connection was closed normally, by the peer or by the monitor: the
\* async for ends
TelStreamEnd ==
    /\ hpc = "pump"
    /\ buffered_media = <<>>
    /\ CancelTasks
    /\ Finally("stream_end")
    /\ UNCHANGED << inCount, wsClose, msgs >>
    /\ UNCHANGED << constVars, idVars, inVars, readerVars, monVars >>

\* the connection was lost: the async for raises ConnectionClosed, lines 730-731
TelConnLost ==
    /\ hpc = "pump"
    /\ buffered_media = <<>>
    /\ wsOpen
    /\ Finally("conn_lost")
    /\ UNCHANGED << inCount, wsClose, msgs, rpc, mpc >>
    /\ UNCHANGED << constVars, idVars, inVars, readerVars, monVars >>


(***************************************************************************)
(* Text.  A text is a sequence of one-character strings, so that join,     *)
(* strip, lower, len and the substring test are computed as Python does.   *)
(***************************************************************************)
LowerOf ==
    ("A" :> "a") @@ ("B" :> "b") @@ ("C" :> "c") @@ ("D" :> "d") @@ ("E" :> "e")
    @@ ("F" :> "f") @@ ("G" :> "g") @@ ("H" :> "h") @@ ("I" :> "i") @@ ("J" :> "j")
    @@ ("K" :> "k") @@ ("L" :> "l") @@ ("M" :> "m") @@ ("N" :> "n") @@ ("O" :> "o")
    @@ ("P" :> "p") @@ ("Q" :> "q") @@ ("R" :> "r") @@ ("S" :> "s") @@ ("T" :> "t")
    @@ ("U" :> "u") @@ ("V" :> "v") @@ ("W" :> "w") @@ ("X" :> "x") @@ ("Y" :> "y")
    @@ ("Z" :> "z")

\* str.lower()
Lower(t) == [i \in 1..Len(t) |-> IF t[i] \in DOMAIN LowerOf THEN LowerOf[t[i]] ELSE t[i]]

RECURSIVE LStrip(_)
LStrip(t) == IF t # <<>> /\ Head(t) = " " THEN LStrip(Tail(t)) ELSE t

RECURSIVE RStrip(_)
RStrip(t) == IF t # <<>> /\ t[Len(t)] = " " THEN RStrip(SubSeq(t, 1, Len(t) - 1)) ELSE t

\* str.strip()
Strip(t) == RStrip(LStrip(t))

\* "".join(parts)
Join(parts) == Flatten(parts)

RECURSIVE JoinSpace(_)
\* " ".join(texts)
JoinSpace(texts) ==
    IF texts = <<>> THEN <<>>
    ELSE IF Len(texts) = 1 THEN Head(texts)
    ELSE Head(texts) \o << " " >> \o JoinSpace(Tail(texts))

\* phrase in text
Contains(phrase, t) ==
    \E i \in 0..(Len(t) - Len(phrase)) : SubSeq(t, i + 1, i + Len(phrase)) = phrase

\* [p.strip().lower() for p in cfg.END_CALL_PHRASES.split(",")], config.py default
END_CALL_PHRASES ==
    << << "t", "h", "a", "n", "k", " ", "y", "o", "u" >>,
       << "t", "h", "a", "n", "k", "s" >>,
       << "t", "h", "a", "n", "k", "-", "y", "o", "u" >>,
       << "g", "o", "o", "d", "b", "y", "e" >>,
       << "b", "y", "e" >> >>

FarewellMaxLen == 100    \* if len(combined) > 100: return False

\* _should_end_call(texts, phrases)
ShouldEndCall(texts, phrases) ==
    IF texts = <<>> THEN FALSE
    ELSE LET combined == Strip(Lower(JoinSpace(texts)))
         IN IF Len(combined) > FarewellMaxLen THEN FALSE
            ELSE \E i \in 1..Len(phrases) :
                    phrases[i] # <<>> /\ Contains(phrases[i], combined)

(***************************************************************************)
(* The messages of the AI backend that _gemini_reader tells apart.         *)
(*   setup: setupComplete;  tools: the names of toolCall.functionCalls;    *)
(*   outT: serverContent.outputTranscription is present, with text out     *)
(*   (<<>> when missing or empty) and finished fin;  inp: the text of      *)
(*   serverContent.inputTranscription (<<>> when absent);  intr:           *)
(*   serverContent.interrupted;  audio: the samples the inline audio of    *)
(*   modelTurn.parts[0] resamples to (0 when there is none).               *)
(***************************************************************************)
NoContent ==
    [setup |-> FALSE, tools |-> <<>>, ids |-> <<>>, outT |-> FALSE, out |-> <<>>,
     fin |-> FALSE, inp |-> <<>>, intr |-> FALSE, audio |-> 0]

Fragments == { << "B", "y", "e" >>, << " " >>, << "o", "k" >> }

UserTexts == { << "n", "o" >> }

\* a call in which the backend sends audio, interruptions and end_call
AudioMessages ==
    { [NoContent EXCEPT !.tools = << "end_call" >>],
      [NoContent EXCEPT !.intr = TRUE] }
    \cup { [NoContent EXCEPT !.audio = n] : n \in 1..MaxAudio }
    \cup { [NoContent EXCEPT !.intr = TRUE, !.audio = n] : n \in 1..MaxAudio }

\* a call in which the backend sends transcriptions, interruptions and the rest
TextMessages ==
    { [NoContent EXCEPT !.setup = TRUE],
      [NoContent EXCEPT !.tools = << "other" >>],
      [NoContent EXCEPT !.outT = TRUE, !.fin = TRUE],
      [NoContent EXCEPT !.intr = TRUE] }
    \cup { [NoContent EXCEPT !.outT = TRUE, !.out = f, !.fin = b] :
             f \in Fragments, b \in BOOLEAN }
    \cup { [NoContent EXCEPT !.inp = u] : u \in UserTexts }
    \cup { [NoContent EXCEPT !.intr = TRUE, !.outT = TRUE, !.out = f] : f \in Fragments }
    \cup { [NoContent EXCEPT !.intr = TRUE, !.audio = 1] }

\* "Thank you for confirming your details, see you then"
ThankYouForConfirming ==
    << "T", "h", "a", "n", "k", " ", "y", "o", "u", " ", "f", "o", "r", " ",
       "c", "o", "n", "f", "i", "r", "m", "i", "n", "g", " ", "y", "o", "u",
       "r", " ", "d", "e", "t", "a", "i", "l", "s", ",", " ", "s", "e", "e",
       " ", "y", "o", "u", " ", "t", "h", "e", "n" >>

\* "Thanks, bye!"
ThanksBye ==
    << "T", "h", "a", "n", "k", "s", ",", " ", "b", "y", "e", "!" >>

\* "Bye" and dots after it: an utterance of n characters
ByePadded(n) == << "B", "y", "e" >> \o [i \in 1..(n - 3) |-> "."]

\* a call in which the agent says these utterances, each finalized in one
\* message, and the backend sends audio and interruptions
FarewellMessages ==
    { [NoContent EXCEPT !.outT = TRUE, !.out = u, !.fin = TRUE] :
         u \in {ThankYouForConfirming, ThanksBye,
                ByePadded(FarewellMaxLen), ByePadded(FarewellMaxLen + 1)} }
    \cup { [NoContent EXCEPT !.intr = TRUE] }
    \cup { [NoContent EXCEPT !.audio = n] : n \in 1..MaxAudio }

\* a call in which the backend sends tool calls of one or two function calls
\* that carry an id, audio and interruptions
ToolMessages ==
    { [NoContent EXCEPT !.tools = << n >>, !.ids = << "a" >>] :
         n \in {"end_call", "other"} }
    \cup { [NoContent EXCEPT !.tools = << n1, n2 >>, !.ids = << "a", "b" >>] :
              n1 \in {"end_call", "other"}, n2 \in {"end_call", "other"} }
    \cup { [NoContent EXCEPT !.intr = TRUE] }
    \cup { [NoContent EXCEPT !.audio = n] : n \in 1..MaxAudio }

AIMessages ==
    CASE env.ai = "audio" -> AudioMessages
      [] env.ai = "text" -> TextMessages
      [] env.ai = "farewell" -> FarewellMessages
      [] env.ai = "tools" -> ToolMessages

\* msg.get("serverContent")
HasServerContent(m) == m.outT \/ m.inp # <<>> \/ m.intr \/ m.audio > 0

(***************************************************************************)
(* _gemini_reader, lines 309-330: the tool calls of a message.             *)
(***************************************************************************)
\* fc.get("id") of the i-th function call
CallId(m, i) == IF i \in DOMAIN m.ids THEN m.ids[i] ELSE None

\* lines 313-330, one function call: end_call is answered by a toolResponse
\* with its id, sent (ok) or failed; another name is not answered
HandleCall(m, oks, i) ==
    << [kind |-> "call", id |-> CallId(m, i), name |-> m.tools[i], sent |-> TRUE] >>
    \o (IF m.tools[i] = "end_call"
          THEN << [kind |-> "response", id |-> CallId(m, i), name |-> "end_call",
                   sent |-> oks[i]] >>
          ELSE <<>>)

RECURSIVE CallsFrom(_, _, _)
\* for fc in function_calls, from the i-th on
CallsFrom(m, oks, i) ==
    IF i > Len(m.tools) THEN <<>>
    ELSE HandleCall(m, oks, i) \o CallsFrom(m, oks, i + 1)

\* a reader that answers the end_call only when it is the first function call
ToolCallsFirstAnswered(m, oks) ==
    [i \in 1..Len(m.tools) |->
        [kind |-> "call", id |-> CallId(m, i), name |-> m.tools[i], sent |-> TRUE]]
    \o (IF m.tools # <<>> /\ m.tools[1] = "end_call"
          THEN << [kind |-> "response", id |-> CallId(m, 1), name |-> "end_call",
                   sent |-> oks[1]] >>
          ELSE <<>>)

ToolCalls(m, oks) == CallsFrom(m, oks, 1)

\* the function calls are recorded in the calls whose function calls carry an id
SendOutcomes(m) ==
    IF env.ai = "tools" THEN [1..Len(m.tools) -> BOOLEAN] ELSE {[i \in 1..Len(m.tools) |-> TRUE]}

\* the flag taken from the tool calls of this message alone
EndAfterThisMessage(m, eat) == \E i \in 1..Len(m.tools) : m.tools[i] = "end_call"

EndAfterToolCalls(m, eat) == eat \/ (\E i \in 1..Len(m.tools) : m.tools[i] = "end_call")

(***************************************************************************)
(* _gemini_reader, lines 332-387: the transcript of a message.  s is       *)
(* [acc, trs, eat]: current_agent_transcript, transcripts, end_after_turn. *)
(***************************************************************************)
TranscriptGate(m) ==
    /\ cfg.DEBUG \/ cfg.LOG_TRANSCRIPTS
    /\ HasServerContent(m)
    /\ cfg.LOG_TRANSCRIPTS \/ cfg.SAVE_TRANSCRIPTS

\* lines 346-374: outputTranscription
AfterOutput(m, s) ==
    IF ~m.outT THEN s
    ELSE LET acc == IF m.out # <<>> THEN Append(s.acc, m.out) ELSE s.acc
             full_text == Strip(Join(acc))
         IN IF m.fin /\ acc # <<>>
              THEN [acc |-> <<>>,
                    trs |-> IF full_text # <<>> /\ cfg.SAVE_TRANSCRIPTS
                              THEN Append(s.trs, [role |-> "agent", text |-> full_text])
                              ELSE s.trs,
                    eat |-> s.eat \/ (full_text # <<>> /\ cfg.AUTO_END_CALL
                                       /\ ShouldEndCall(<< full_text >>, END_CALL_PHRASES))]
              ELSE [s EXCEPT !.acc = acc]

\* a user entry put in front of the transcript
AfterInputFirst(m, s) ==
    IF m.inp # <<>> /\ cfg.SAVE_TRANSCRIPTS
      THEN [s EXCEPT !.trs = << [role |-> "user", text |-> Strip(m.inp)] >> \o s.trs]
      ELSE s

\* lines 376-387: inputTranscription
AfterInput(m, s) ==
    IF m.inp # <<>> /\ cfg.SAVE_TRANSCRIPTS
      THEN [s EXCEPT !.trs = Append(s.trs, [role |-> "user", text |-> Strip(m.inp)])]
      ELSE s

AfterTranscripts(m, s) == IF TranscriptGate(m) THEN AfterInput(m, AfterOutput(m, s)) ELSE s

(***************************************************************************)
(* _gemini_reader, lines 296-454: one message of the backend, up to the    *)
(* first await on the telephony connection.                                *)
(***************************************************************************)
\* an interruption that leaves the buffered audio in place
ClearKeeps(buffer) == buffer

\* line 405: session.output_buffer.clear()
Clear(buffer) == <<>>

ReaderRecv ==
    /\ rpc = "run"
    /\ gconn = "connected"
    /\ msgs < env.msgs
    /\ msgs' = msgs + 1
    /\ \E m \in AIMessages :
         LET s == AfterTranscripts(m,
                    [acc |-> current_agent_transcript, trs |-> transcripts,
                     eat |-> EndAfterToolCalls(m, end_after_turn)])
         IN /\ \E oks \in SendOutcomes(m) :
                  toolLog' = IF env.ai = "tools"
                                     THEN toolLog \o ToolCalls(m, oks)
                                     ELSE toolLog
            /\ current_agent_transcript' = s.acc
            /\ transcripts' = s.trs
            /\ end_after_turn' = s.eat
            /\ outCount' = outCount + m.audio
            /\ IF m.intr
                 THEN /\ output_buffer' = Clear(output_buffer)
                      /\ intrMark' = outCount + m.audio
                      /\ intrPos' = Len(telSent)
                      /\ intrFragments' = Len(s.acc)
                      /\ staleFragments' = Len(s.acc)
                      /\ rpc' = "clear_send"
                 ELSE /\ output_buffer' = output_buffer \o Samples(outCount, m.audio)
                      /\ UNCHANGED << intrMark, intrPos, intrFragments >>
                      /\ staleFragments' = IF staleFragments < Len(s.acc)
                                             THEN staleFragments ELSE Len(s.acc)
                      /\ rpc' = IF m.audio > 0 /\ Ready(output_buffer \o Samples(outCount, m.audio),
                                                        AUDIO_BUFFER_SAMPLES_OUTPUT)
                                  THEN "drain" ELSE "run"
    /\ UNCHANGED << hpc, inCount, telSent, wsClose, mpc >>
    /\ UNCHANGED << constVars, idVars, inVars, monVars, tdVars >>

\* a reader that clears the accumulator only once the clear command was sent
ReaderSendClearThenEmpty ==
    /\ rpc = "clear_send"
    /\ \E ok \in BOOLEAN :
         /\ ok => wsOpen
         /\ telSent' = IF ok THEN Append(telSent, [event |-> "clear", chunk |-> <<>>])
                       ELSE telSent
         /\ current_agent_transcript' = IF ok THEN <<>> ELSE current_agent_transcript
         /\ staleFragments' = IF ok THEN 0 ELSE staleFragments
    /\ rpc' = "run"
    /\ UNCHANGED << hpc, inCount, msgs, wsClose, mpc, output_buffer, end_after_turn,
                    transcripts, outCount, intrMark, intrPos, intrFragments,
                    toolLog >>
    /\ UNCHANGED << constVars, idVars, inVars, monVars, tdVars >>

\* lines 407-422: the clear command is sent, the accumulator cleared, continue
ReaderSendClear ==
    /\ rpc = "clear_send"
    /\ \E ok \in BOOLEAN :
         /\ ok => wsOpen
         /\ telSent' = IF ok THEN Append(telSent, [event |-> "clear", chunk |-> <<>>])
                       ELSE telSent
    /\ current_agent_transcript' = <<>>
    /\ staleFragments' = 0
    /\ rpc' = "run"
    /\ UNCHANGED << hpc, inCount, msgs, wsClose, mpc, output_buffer, end_after_turn,
                    transcripts, outCount, intrMark, intrPos, intrFragments,
                    toolLog >>
    /\ UNCHANGED << constVars, idVars, inVars, monVars, tdVars >>

\* lines 430-454: one iteration of the outbound chunk loop
ReaderSendChunk ==
    /\ rpc = "drain"
    /\ output_buffer' = Rest(output_buffer, AUDIO_BUFFER_SAMPLES_OUTPUT)
    /\ \E ok \in BOOLEAN :
         /\ ok => wsOpen
         /\ IF ok
              THEN /\ telSent' = Append(telSent,
                        [event |-> "media",
                         chunk |-> Chunk(output_buffer, AUDIO_BUFFER_SAMPLES_OUTPUT)])
                   /\ rpc' = IF Ready(Rest(output_buffer, AUDIO_BUFFER_SAMPLES_OUTPUT),
                                      AUDIO_BUFFER_SAMPLES_OUTPUT)
                               THEN "drain" ELSE "run"
              ELSE /\ telSent' = telSent
                   /\ rpc' = "run"
    /\ UNCHANGED << hpc, inCount, msgs, wsClose, mpc, end_after_turn, transcripts,
                    current_agent_transcript, outCount, intrMark, intrPos, intrFragments,
                    staleFragments, toolLog >>
    /\ UNCHANGED << constVars, idVars, inVars, monVars, tdVars >>

\* the message stream ends (the backend disconnected or was closed) or an
\* exception is caught at line 458
ReaderEnd ==
    /\ rpc = "run"
    /\ rpc' = "ended"
    /\ UNCHANGED << hpc, inCount, msgs, wsClose, mpc >>
    /\ UNCHANGED << constVars, idVars, inVars, readerVars, monVars, tdVars >>


(***************************************************************************)
(* _end_call_monitor, lines 153-214.  Each action ends at an await: the    *)
(* sleeps of 0.5 s and 1.0 s and the two close calls.                      *)
(***************************************************************************)
\* a supervisor that starts its wait without looking at end_after_turn
MonitorWatchEager ==
    /\ mpc = "watch"
    /\ IF closed THEN mpc' = "done" ELSE mpc' = "grace"
    /\ UNCHANGED << hpc, inCount, msgs, wsClose, rpc >>
    /\ UNCHANGED << constVars, idVars, inVars, readerVars, monVars, tdVars >>

\* lines 160-161 and 209-210: the outer loop, one look every 0.5 s
MonitorWatch ==
    /\ mpc = "watch"
    /\ IF closed THEN mpc' = "done"
       ELSE IF end_after_turn THEN mpc' = "grace"
       ELSE mpc' = "watch"
    /\ UNCHANGED << hpc, inCount, msgs, wsClose, rpc >>
    /\ UNCHANGED << constVars, idVars, inVars, readerVars, monVars, tdVars >>

\* lines 189-193: the wait is over, session.closed = True
MonitorComplete(how) ==
    /\ completedBy' = how
    /\ IF closed THEN mpc' = "done" /\ closed' = closed
       ELSE mpc' = "close_gemini" /\ closed' = TRUE

\* a monitor that closes as soon as it has seen end_after_turn
MonitorGraceSkipped ==
    /\ mpc = "grace"
    /\ MonitorComplete("debounce")
    /\ UNCHANGED << hpc, inCount, msgs, wsClose, rpc, empty_count, waited, elapsed, polls >>
    /\ UNCHANGED << constVars, idVars, inVars, readerVars, tdVars >>

\* lines 167-172: the grace sleep has ended
MonitorGrace ==
    /\ mpc = "grace"
    /\ elapsed' = elapsed + GraceHalfSeconds
    /\ empty_count' = 0
    /\ waited' = 0
    /\ polls' = <<>>
    /\ mpc' = "poll"
    /\ UNCHANGED << hpc, inCount, msgs, wsClose, rpc, closed, completedBy >>
    /\ UNCHANGED << constVars, idVars, inVars, readerVars, tdVars >>

\* a ceiling tested with <= : one poll more than max_wait allows
CeilingOnePollLate(w) == ~(w <= max_wait * PollsPerSecond)

\* line 174: while waited < max_wait, left when the test fails
CeilingReached(w) == ~(w < max_wait * PollsPerSecond)

\* the last DebounceCount polls
LastPolls(seen) ==
    IF Len(seen) > DebounceCount THEN SubSeq(seen, Len(seen) - DebounceCount + 1, Len(seen))
    ELSE seen

\* a count that a non-empty buffer leaves as it is
EmptyCountKept(buffer, count) == IF buffer = <<>> THEN count + 1 ELSE count

\* lines 178-184: empty_count after a look at the output buffer
EmptyCount(buffer, count) == IF buffer = <<>> THEN count + 1 ELSE 0

\* lines 174-187: one poll of the output buffer and the sleep after it
MonitorPoll ==
    /\ mpc = "poll"
    /\ IF closed
         THEN /\ mpc' = "done"
              /\ UNCHANGED << closed, empty_count, waited, elapsed, completedBy, polls >>
         ELSE LET count == EmptyCount(output_buffer, empty_count)
              IN /\ empty_count' = count
                 /\ polls' = LastPolls(Append(polls, output_buffer = <<>>))
                 /\ IF output_buffer = <<>> /\ count >= DebounceCount
                      THEN /\ MonitorComplete("debounce")
                           /\ UNCHANGED << waited, elapsed >>
                      ELSE /\ waited' = waited + 1
                           /\ elapsed' = elapsed + 1
                           /\ IF CeilingReached(waited + 1)
                                THEN MonitorComplete("ceiling")
                                ELSE mpc' = "poll" /\ UNCHANGED << closed, completedBy >>
    /\ UNCHANGED << hpc, inCount, msgs, wsClose, rpc >>
    /\ UNCHANGED << constVars, idVars, inVars, readerVars, tdVars >>

\* lines 195-199: await session.gemini.close(), a failure swallowed
MonitorCloseGemini ==
    /\ mpc = "close_gemini"
    /\ gemClose' = gemClose \cup {"monitor"}
    /\ gconn' = "closed"
    /\ mpc' = "close_ws"
    /\ UNCHANGED << hpc, inCount, msgs, wsClose, rpc, tdPath, saves, posts, raised,
                    wsOpen >>
    /\ UNCHANGED << constVars, idVars, inVars, readerVars, monVars >>

\* lines 201-207: await session.client_ws.close(code=1000, ...), then return
MonitorCloseWs ==
    /\ mpc = "close_ws"
    /\ wsClose' = wsClose \cup
           {[by |-> "monitor", code |-> NormalCloseCode, reason |-> "Call completed"]}
    /\ wsOpen' = FALSE
    /\ mpc' = "done"
    /\ UNCHANGED << hpc, inCount, msgs, rpc, tdPath, saves, posts, raised, gemClose,
                    gconn >>
    /\ UNCHANGED << constVars, idVars, inVars, readerVars, monVars >>

(***************************************************************************)
(* The session.                                                            *)
(***************************************************************************)
Handler ==
    \/ RecvStart
    \/ RecvPreMedia
    \/ RecvPreBinary
    \/ RecvPreIgnored
    \/ RecvTerminate
    \/ RecvTimeout
    \/ IdentityTick
    \/ RecvClosed
    \/ AwaitConnect
    \/ FlushBuffered
    \/ SendChunkToAI
    \/ TelMedia
    \/ TelDropped
    \/ TelMalformed
    \/ TelStop
    \/ TelStreamEnd
    \/ TelConnLost

Reader == ReaderRecv \/ ReaderSendClear \/ ReaderSendChunk \/ ReaderEnd

Monitor ==
    \/ MonitorWatch
    \/ MonitorGrace
    \/ MonitorPoll
    \/ MonitorCloseGemini
    \/ MonitorCloseWs

Next == Handler \/ Reader \/ Monitor \/ ConnectResolve

Spec == Init /\ [][Next]_vars

(***************************************************************************)
(* The supervisor under the scheduling of the event loop: a task that can  *)
(* run is run, a sleep ends, an awaited close returns.  The calls are one  *)
(* message shorter and the backend sends audio.                            *)
(***************************************************************************)
FairEnvs ==
    [pre : {MaxStartMessages}, msgs : {MaxMsgs - 1}, ai : {"audio"}, starts : {"few"},
     timed : {FALSE}]
      \cup TimedEnvs

FairConfig == { WithChunks(DefaultFlags, MaxAudio, MaxAudio) }

FairInit == InitWith(FairConfig, FairEnvs)

FairSpec == FairInit /\ [][Next]_vars /\ WF_vars(Monitor)

(***************************************************************************)
(* Properties.                                                             *)
(***************************************************************************)
\* the session is ACTIVE: the handler is in its receive loop or in the chunk
\* loop of _process_media_message
Active == hpc \in {"pump", "drain"}

\* the close call the supervisor makes on the telephony connection
MonitorWsClose == [by |-> "monitor", code |-> NormalCloseCode, reason |-> "Call completed"]

\* the longest the supervisor sleeps after seeing end_after_turn, in half seconds
WaitCeiling == GraceHalfSeconds + max_wait * PollsPerSecond

IsPrefix(p, q) == Len(p) <= Len(q) /\ SubSeq(q, 1, Len(p)) = p

\* C1: while the session is ACTIVE every chunk sent to the AI backend holds
\* exactly AUDIO_BUFFER_SAMPLES_INPUT samples, the chunks sent so far followed
\* by input_buffer are the samples appended so far, in order, and input_buffer
\* holds fewer than AUDIO_BUFFER_SAMPLES_INPUT samples whenever the handler
\* waits for its next message.
C1_InboundChunking ==
    /\ \A i \in 1..Len(aiSent) : Len(aiSent[i]) = AUDIO_BUFFER_SAMPLES_INPUT
    /\ Active => Flatten(aiSent) \o input_buffer = appended
    /\ hpc = "pump" => Len(input_buffer) < AUDIO_BUFFER_SAMPLES_INPUT

\* two chunks were cut from three units and a sample stays behind
C1_Witness ==
    /\ hpc = "pump"
    /\ AUDIO_BUFFER_SAMPLES_INPUT = 2
    /\ Len(aiSent) = 2
    /\ Len(input_buffer) = 1
    /\ Len(appended) = 5

\* C2: between the receipt of an interrupted signal and the clear command the
\* output buffer is empty and nothing is sent to the telephony peer; every
\* media chunk sent after the signal is built from audio that arrived after it.
C2_InterruptPrecedesResumption ==
    /\ rpc = "clear_send" => output_buffer = <<>> /\ Len(telSent) = intrPos
    /\ \A i \in (intrPos + 1)..Len(telSent) :
         telSent[i].event = "media" =>
             \A j \in 1..Len(telSent[i].chunk) : telSent[i].chunk[j] > intrMark
    /\ \A j \in 1..Len(output_buffer) : output_buffer[j] > intrMark

\* a sample was buffered and unsent when the signal came, and a chunk was sent
\* after the clear command
C2_Witness ==
    /\ AUDIO_BUFFER_SAMPLES_OUTPUT = 2
    /\ intrMark = 1
    /\ intrPos = 0
    /\ Len(telSent) = 2
    /\ telSent[1].event = "clear"
    /\ telSent[2].event = "media"

\* C3: once end_after_turn is set the supervisor sets closed and closes the
\* backend and the telephony connection, unless the handler cancels it first;
\* it never sleeps longer than the grace period and the ceiling of polls,
\* whether or not it sees the output buffer empty.
C3_SupervisorCloses ==
    /\ [](mpc \in {"grace", "poll"} => elapsed < WaitCeiling)
    /\ [](elapsed <= WaitCeiling)
    /\ end_after_turn ~>
          \/ mpc = "cancelled"
          \/ /\ closed
             /\ mpc = "done"
             /\ "monitor" \in gemClose
             /\ MonitorWsClose \in wsClose

\* the supervisor closed at the ceiling, the output buffer never seen empty
C3_Witness ==
    /\ mpc = "done"
    /\ closed
    /\ completedBy = "ceiling"
    /\ elapsed = WaitCeiling
    /\ output_buffer # <<>>
    /\ "monitor" \in gemClose
    /\ MonitorWsClose \in wsClose

\* C4: the supervisor does not set closed and closes neither connection before
\* it has slept the grace period since it saw end_after_turn.
C4_GraceBeforeClose ==
    (\/ closed
     \/ mpc \in {"close_gemini", "close_ws"}
     \/ "monitor" \in gemClose
     \/ MonitorWsClose \in wsClose)
        => elapsed >= GraceHalfSeconds

\* the earliest close: the grace period and three polls that saw the buffer empty
C4_Witness ==
    /\ closed
    /\ completedBy = "debounce"
    /\ elapsed = GraceHalfSeconds + (DebounceCount - 1)
    /\ MonitorWsClose \in wsClose

\* C5: a handler that has finished has attempted to close the AI backend
\* session, whatever path led to its teardown.
C5_TeardownClosesBackend == hpc = "done" => gemClose # {}

\* C6: the steps of teardown are independent and nothing propagates: a handler
\* that has finished has attempted the backend close in its finally block and
\* has not raised.
C6_TeardownBestEffort == hpc = "done" => ~raised /\ "handler" \in gemClose

\* C7: when the handler ends a session that has a transcript and a phone
\* number, saving enabled, the transcript has been persisted once and the
\* outcome posted once.
C7_SaveAndPostOnce ==
    [][(/\ hpc # "done"
        /\ hpc' = "done"
        /\ transcripts # <<>>
        /\ phone_number # None
        /\ cfg.SAVE_TRANSCRIPTS) => (saves' = 1 /\ posts' = 1)]_vars

\* C8: the reader and the supervisor are not started and no audio is sent to
\* the backend while ucid is UNKNOWN; a session that ends without an identity
\* was closed with the policy code.
C8_NoActiveWithoutIdentity ==
    /\ (rpc # "none" \/ mpc # "none" \/ aiSent # <<>> \/ Active) => ucid # UNKNOWN
    /\ (tdPath \in {"no_start", "timeout"}) =>
          \E c \in wsClose : c.code = PolicyCloseCode /\ c.reason # ""

\* C9: a terminate message received while awaiting identity ends the handler:
\* the reader and the supervisor are never started, no audio is sent to the
\* backend, buffered media included, and the connection is released.
C9_TerminateBeforeIdentity ==
    tdPath = "terminate" =>
        /\ hpc = "done"
        /\ rpc = "none"
        /\ mpc = "none"
        /\ aiSent = <<>>
        /\ appended = <<>>
        /\ ~wsOpen

\* a terminate message after media was buffered
C9_Witness ==
    /\ tdPath = "terminate"
    /\ hpc = "done"
    /\ Len(buffered_media) = 2
    /\ \E i \in 1..2 : HasPayload(buffered_media[i])

\* C10: once the buffered media is flushed, the samples of every media unit
\* received before identity are the first samples appended to input_buffer,
\* in arrival order.
C10_PreIdentityMediaKept ==
    (hpc = "pump" /\ buffered_media = <<>>) => IsPrefix(preMedia, appended)

\* C11: a malformed unit received in the receive loop does not end the session:
\* the only received message on which the handler leaves the loop and ends is
\* a stop event.
C11_MalformedUnitDropped ==
    [][(hpc = "pump" /\ hpc' = "done" /\ msgs' = msgs + 1) => tdPath' = "stop"]_vars

(***************************************************************************)
(* Identity resolution over every start message: the start message carries *)
(* any combination of id fields, the calls are two messages shorter.       *)
(***************************************************************************)
IdEnvs ==
    [pre : {MaxStartMessages}, msgs : {MaxMsgs - 2}, ai : {"audio"}, starts : {"all"},
     timed : {FALSE}]
      \cup TimedEnvs

IdInit == InitWith(FairConfig, IdEnvs)

IdSpec == IdInit /\ [][Next]_vars

\* the documented precedence of the id fields: top-level ucid, start.ucid,
\* top-level stream_sid, start.stream_sid, start.call_sid, data.ucid
DocumentedOrder ==
    << "ucid", "start.ucid", "stream_sid", "start.stream_sid", "start.call_sid",
       "data.ucid" >>

\* C12: after a start message ucid is the first field of the documented order
\* that the message carries; when it carries none, ucid stays what it was, the
\* identity inferred from earlier media included.
C12_IdentityPrecedence ==
    /\ [](start_msg # <<>> /\ start_msg[1].ids # {} =>
            \E i \in 1..Len(DocumentedOrder) :
               /\ ucid = DocumentedOrder[i]
               /\ DocumentedOrder[i] \in start_msg[1].ids
               /\ \A j \in 1..(i - 1) : DocumentedOrder[j] \notin start_msg[1].ids)
    /\ [][(start_msg = <<>> /\ start_msg' # <<>> /\ start_msg'[1].ids = {})
             => ucid' = ucid]_vars

\* a start message with a top-level stream_sid and a nested ucid, after media
\* gave a stream_sid: the nested ucid wins
C12_Witness ==
    /\ start_msg # <<>>
    /\ start_msg[1].ids = {"start.ucid", "stream_sid", "start.stream_sid"}
    /\ ucid = "start.ucid"
    /\ buffered_media # <<>>
    /\ hpc = "pump"

\* C13: ucid changes at most once: once it is no longer UNKNOWN it keeps its
\* value.
C13_IdentitySetOnce == [][ucid # UNKNOWN => ucid' = ucid]_vars

\* the reason the handler gives when the receive timeout fires, line 729
TimeoutReason == "Timeout waiting for start event"

\* C14: when identity negotiation ends without an identity, by the receive
\* timeout or by the ceiling of 50 messages, the handler closes the telephony
\* connection with the policy code and the timeout reason.
C14_SameTimeoutReason ==
    tdPath \in {"timeout", "no_start"} =>
        wsClose = {[by |-> "handler", code |-> PolicyCloseCode, reason |-> TimeoutReason]}

(***************************************************************************)
(* Farewell detection: AUTO_END_CALL on, the default phrase list, the      *)
(* agent says the two utterances; the calls are one message shorter.       *)
(***************************************************************************)
FarewellEnvs ==
    [pre : {MaxStartMessages}, msgs : {MaxMsgs - 1}, ai : {"farewell"}, starts : {"few"},
     timed : {FALSE}]
      \cup TimedEnvs

FarewellConfig ==
    { WithChunks([DefaultFlags EXCEPT !.AUTO_END_CALL = TRUE], MaxAudio, MaxAudio) }

FarewellInit == InitWith(FarewellConfig, FarewellEnvs)

FarewellSpec == FarewellInit /\ [][Next]_vars

\* the finalized agent utterances, in order
AgentUtterances == [i \in 1..Len(transcripts) |-> transcripts[i].text]

\* C15: with farewell detection on, a session whose only finalized agent
\* utterance is "Thank you for confirming your details, see you then" has not
\* set end_after_turn, and one in which "Thanks, bye!" was finalized has.
C15_FarewellGate ==
    /\ (transcripts # <<>> /\ Range(AgentUtterances) = {ThankYouForConfirming})
          => ~end_after_turn
    /\ ThanksBye \in Range(AgentUtterances) => end_after_turn

(***************************************************************************)
(* transcript_processor.py.  Texts are sequences of one-character strings; *)
(* None, which the parsers return for "nothing found", is the empty text   *)
(* (they never return an empty string, and the code only tests truth).     *)
(* A regular expression is modelled by the match re.search returns: the    *)
(* leftmost one, greedy, alternatives tried in order.                      *)
(***************************************************************************)
NoText == <<>>

Digits == << "0", "1", "2", "3", "4", "5", "6", "7", "8", "9" >>

\* \d
IsDigit(c) == c \in Range(Digits)

\* int(c)
DigitVal(c) == CHOOSE v \in 0..9 : Digits[v + 1] = c

\* \s, for texts whose only white space is the blank
IsSpace(c) == c = " "

\* \w
IsWordChar(c) ==
    IsDigit(c) \/ c = "_" \/ c \in DOMAIN LowerOf \/ c \in { LowerOf[u] : u \in DOMAIN LowerOf }

\* the character at position i, "" outside the text
At(t, i) == IF i \in 1..Len(t) THEN t[i] ELSE ""

\* t.replace(c, "") for every c of cs
Remove(t, cs) == SelectSeq(t, LAMBDA c : c \notin cs)

Min(S) == CHOOSE x \in S : \A y \in S : x <= y

\* the element of a one-element set.  TheOne({ e(x) : x \in {v} }) is e(x) for
\* x = v, with v evaluated once, as an assignment x = v does
TheOne(S) == CHOOSE r \in S : TRUE

RECURSIVE SkipSpaces(_, _)
\* where \s* ends when it starts at position i
SkipSpaces(t, i) == IF IsSpace(At(t, i)) THEN SkipSpaces(t, i + 1) ELSE i

\* phrase matches at position i
MatchAt(phrase, t, i) ==
    /\ i >= 1
    /\ i + Len(phrase) - 1 <= Len(t)
    /\ SubSeq(t, i, i + Len(phrase) - 1) = phrase

\* (\d{1,2}) at position i: the number of digits it takes, and their value
DigitCount(t, i) == IF IsDigit(At(t, i + 1)) THEN 2 ELSE 1

NumberAt(t, i, n) ==
    IF n = 2 THEN 10 * DigitVal(t[i]) + DigitVal(t[i + 1]) ELSE DigitVal(t[i])

RECURSIVE DecimalOf(_)
\* str(n)
DecimalOf(n) ==
    IF n < 10 THEN << Digits[n + 1] >>
    ELSE DecimalOf(n \div 10) \o << Digits[(n % 10) + 1] >>

\* f"{n:0wd}"
Pad(n, w) ==
    LET d == DecimalOf(n)
    IN IF Len(d) >= w THEN d ELSE [i \in 1..(w - Len(d)) |-> "0"] \o d

(***************************************************************************)
(* _parse_time, lines 61-95.                                               *)
(***************************************************************************)
\* lines 78-95: the match in the cleaned text s and the time it gives
MatchTime(s) ==
    LET starts == { i \in 1..Len(s) : IsDigit(s[i]) }
    IN IF starts = {} THEN NoText
       ELSE LET i == Min(starts)
                n == DigitCount(s, i)
                p == i + n
                hasMinute == At(s, p) = ":" /\ IsDigit(At(s, p + 1)) /\ IsDigit(At(s, p + 2))
                minute == IF hasMinute THEN NumberAt(s, p + 1, 2) ELSE 0
                q == SkipSpaces(s, IF hasMinute THEN p + 3 ELSE p)
                meridiem ==
                    IF At(s, q) \in {"a", "p"} /\ At(s, SkipSpaces(s, q + 1)) = "m"
                      THEN << At(s, q), "m" >>
                      ELSE NoText
                h == NumberAt(s, i, n)
                hour ==
                    IF meridiem = NoText THEN (IF h < 8 THEN h + 12 ELSE h)
                    ELSE IF meridiem = << "p", "m" >> /\ h # 12 THEN h + 12
                    ELSE IF meridiem = << "a", "m" >> /\ h = 12 THEN 0
                    ELSE h
            IN Pad(hour, 2) \o << ":" >> \o Pad(minute, 2)

_parse_time(time_str) ==
    TheOne({ MatchTime(s) : s \in { Remove(Strip(Lower(time_str)), {".", "'"}) } })

(***************************************************************************)
(* datetime: a timestamp is [year, month, day, hour].                      *)
(***************************************************************************)
IsLeap(y) == (y % 4 = 0 /\ y % 100 # 0) \/ y % 400 = 0

DaysInMonth(y, m) ==
    CASE m \in {4, 6, 9, 11} -> 30
      [] m = 2 -> IF IsLeap(y) THEN 29 ELSE 28
      [] OTHER -> 31

\* datetime(y, m, d) raises ValueError unless the day exists
ValidDate(y, m, d) == d \in 1..DaysInMonth(y, m)

NextDay(dt) ==
    IF dt.day < DaysInMonth(dt.year, dt.month) THEN [dt EXCEPT !.day = dt.day + 1]
    ELSE IF dt.month < 12 THEN [dt EXCEPT !.month = dt.month + 1, !.day = 1]
    ELSE [dt EXCEPT !.year = dt.year + 1, !.month = 1, !.day = 1]

RECURSIVE AddDays(_, _)
\* dt + timedelta(days=n)
AddDays(dt, n) == IF n = 0 THEN dt ELSE AddDays(NextDay(dt), n - 1)

\* a < b
Before(a, b) ==
    \/ a.year < b.year
    \/ a.year = b.year /\ a.month < b.month
    \/ a.year = b.year /\ a.month = b.month /\ a.day < b.day
    \/ a.year = b.year /\ a.month = b.month /\ a.day = b.day /\ a.hour < b.hour

\* dt.strftime("%Y-%m-%d")
strftime(dt) ==
    Pad(dt.year, 4) \o << "-" >> \o Pad(dt.month, 2) \o << "-" >> \o Pad(dt.day, 2)

\* what a call returns in place of a text when datetime() raised
ValueError == << "ValueError" >>

\* MONTHS, in the order of the dictionary, which is the order of month_pattern
MONTHS ==
    << [name |-> << "j", "a", "n", "u", "a", "r", "y" >>, number |-> 1], [name |-> << "j", "a",
          "n" >>, number |-> 1],
       [name |-> << "f", "e", "b", "r", "u", "a", "r", "y" >>, number |-> 2], [name |-> << "f",
             "e", "b" >>, number |-> 2],
       [name |-> << "m", "a", "r", "c", "h" >>, number |-> 3], [name |-> << "m", "a", "r" >>,
             number |-> 3],
       [name |-> << "a", "p", "r", "i", "l" >>, number |-> 4], [name |-> << "a", "p", "r" >>,
             number |-> 4],
       [name |-> << "m", "a", "y" >>, number |-> 5],
       [name |-> << "j", "u", "n", "e" >>, number |-> 6], [name |-> << "j", "u", "n" >>,
             number |-> 6],
       [name |-> << "j", "u", "l", "y" >>, number |-> 7], [name |-> << "j", "u", "l" >>,
             number |-> 7],
       [name |-> << "a", "u", "g", "u", "s", "t" >>, number |-> 8], [name |-> << "a", "u",
             "g" >>, number |-> 8],
       [name |-> << "s", "e", "p", "t", "e", "m", "b", "e", "r" >>, number |-> 9],
             [name |-> << "s", "e", "p" >>, number |-> 9],
       [name |-> << "s", "e", "p", "t" >>, number |-> 9],
       [name |-> << "o", "c", "t", "o", "b", "e", "r" >>, number |-> 10], [name |-> << "o",
             "c", "t" >>, number |-> 10],
       [name |-> << "n", "o", "v", "e", "m", "b", "e", "r" >>, number |-> 11],
             [name |-> << "n", "o", "v" >>, number |-> 11],
       [name |-> << "d", "e", "c", "e", "m", "b", "e", "r" >>, number |-> 12],
             [name |-> << "d", "e", "c" >>, number |-> 12] >>

\* RELATIVE_DAYS, in the order of the dictionary
RELATIVE_DAYS ==
    << [name |-> << "t", "o", "d", "a", "y" >>, days |-> 0],
       [name |-> << "t", "o", "m", "o", "r", "r", "o", "w" >>, days |-> 1],
       [name |-> << "d", "a", "y", " ", "a", "f", "t", "e", "r" >>, days |-> 2],
       [name |-> << "d", "a", "y", " ", "a", "f", "t", "e", "r", " ", "t", "o", "m", "o", "r",
             "r", "o", "w" >>, days |-> 2] >>

\* the matches of (month_pattern)\s+(\d{1,2})(?:st|nd|rd|th)? in s
MonthDayMatches(s) ==
    { [at |-> x[1], month |-> MONTHS[x[2]].number,
       day |-> NumberAt(s, SkipSpaces(s, x[1] + Len(MONTHS[x[2]].name)),
                        DigitCount(s, SkipSpaces(s, x[1] + Len(MONTHS[x[2]].name))))] :
        x \in
          { y \in (1..Len(s)) \X (1..Len(MONTHS)) :
              /\ MatchAt(MONTHS[y[2]].name, s, y[1])
              /\ IsSpace(At(s, y[1] + Len(MONTHS[y[2]].name)))
              /\ IsDigit(At(s, SkipSpaces(s, y[1] + Len(MONTHS[y[2]].name)))) } }

OrdinalSuffixes == { << "s", "t" >>, << "n", "d" >>, << "r", "d" >>, << "t", "h" >> }

\* the matches of (\d{1,2})(?:st|nd|rd|th)?\s+(month_pattern) in s
DayMonthMatches(s) ==
    { [at |-> x[1], month |-> MONTHS[x[4]].number, day |-> NumberAt(s, x[1], x[2])] :
        x \in
          { y \in (1..Len(s)) \X {1, 2} \X {0, 2} \X (1..Len(MONTHS)) :
              /\ \A d \in 0..(y[2] - 1) : IsDigit(At(s, y[1] + d))
              /\ y[3] = 2 => << At(s, y[1] + y[2]), At(s, y[1] + y[2] + 1) >> \in OrdinalSuffixes
              /\ IsSpace(At(s, y[1] + y[2] + y[3]))
              /\ MatchAt(MONTHS[y[4]].name, s, SkipSpaces(s, y[1] + y[2] + y[3])) } }

\* re.search: the leftmost match; at one position the digits are taken
\* greedily
Leftmost(matches) ==
    LET first == { m \in matches : \A o \in matches : m.at <= o.at }
    IN CHOOSE m \in first : \A o \in first : m.day >= o.day

\* lines 123-130 and 135-141: the year of an absolute date
ResolveYear(month, day, reference_date) ==
    LET year == reference_date.year
        target_date == [year |-> year, month |-> month, day |-> day, hour |-> 0]
    IN IF ~ValidDate(year, month, day) THEN ValueError
       ELSE IF Before(target_date, reference_date)
              THEN IF ValidDate(year + 1, month, day)
                     THEN strftime([target_date EXCEPT !.year = year + 1])
                     ELSE ValueError
              ELSE strftime(target_date)

(***************************************************************************)
(* _parse_date, lines 98-143.                                              *)
(***************************************************************************)
\* lines 110-143 on the stripped, lowercased text s
MatchDate(s, reference_date) ==
    LET rel == { k \in 1..Len(RELATIVE_DAYS) : Contains(RELATIVE_DAYS[k].name, s) }
    IN IF rel # {}
         THEN strftime(AddDays(reference_date, RELATIVE_DAYS[Min(rel)].days))
       ELSE TheOne({
              IF md # {}
                THEN ResolveYear(Leftmost(md).month, Leftmost(md).day, reference_date)
              ELSE TheOne({
                     IF dm # {}
                       THEN ResolveYear(Leftmost(dm).month, Leftmost(dm).day, reference_date)
                     ELSE NoText : dm \in { DayMonthMatches(s) } })
              : md \in { MonthDayMatches(s) } })

_parse_date(date_str, reference_date) ==
    TheOne({ MatchDate(s, reference_date) : s \in { Strip(Lower(date_str)) } })

(***************************************************************************)
(* _extract_date_time_from_text, lines 146-159.                            *)
(***************************************************************************)
_extract_date_time_from_text(text, reference_date) ==
    TheOne({ [date |-> _parse_date(text_lower, reference_date),
              time |-> _parse_time(text_lower)] : text_lower \in { Lower(text) } })

(***************************************************************************)
(* _check_confirmation_patterns, lines 162-185.                            *)
(***************************************************************************)
confirmation_words ==
    { << "y", "e", "s" >>, << "y", "e", "a", "h" >>, << "y", "e", "p" >>, << "o", "k", "a",
          "y" >>, << "o", "k" >>, << "s", "u", "r", "e" >>, << "p", "e", "r", "f", "e", "c",
          "t" >>, << "g", "r", "e", "a", "t" >>,
      << "f", "i", "n", "e" >>, << "s", "o", "u", "n", "d", "s", " ", "g", "o", "o", "d" >>,
            << "t", "h", "a", "t", " ", "w", "o", "r", "k", "s" >>, << "c", "o", "n", "f", "i",
            "r", "m", "e", "d" >> }

\* set(t.split())
Words(t) ==
    { SubSeq(t, x[1], x[2]) : x \in
        { ij \in (1..Len(t)) \X (1..Len(t)) :
            /\ ij[1] <= ij[2]
            /\ \A k \in ij[1]..ij[2] : ~IsSpace(t[k])
            /\ ij[1] = 1 \/ IsSpace(t[ij[1] - 1])
            /\ ij[2] = Len(t) \/ IsSpace(t[ij[2] + 1]) } }

\* re.sub(r'[^\w\s]', '', t)
Clean(t) == SelectSeq(t, LAMBDA c : IsWordChar(c) \/ IsSpace(c))

_check_confirmation_patterns(trs) ==
    \E i \in 1..Len(trs) :
        /\ trs[i].role = "user"
        /\ Words(Clean(Strip(Lower(trs[i].text)))) \cap confirmation_words # {}

(***************************************************************************)
(* _check_not_interested_patterns, lines 188-203.  Each pattern is the set *)
(* of the phrases its alternatives and optional apostrophes spell.         *)
(***************************************************************************)
not_interested_patterns ==
    << { << "n", "o", "t", " ", "i", "n", "t", "e", "r", "e", "s", "t", "e", "d" >>, << "d",
          "o", "n", "t", " ", "w", "a", "n", "t" >>, << "d", "o", "n", "'", "t", " ", "w", "a",
          "n", "t" >>, << "n", "o", " ", "t", "h", "a", "n", "k", "s" >>, << "n", "o", " ",
          "t", "h", "a", "n", "k", " ", "y", "o", "u" >> },
       { << "d", "o", "n", "t", " ", "c", "a", "l", "l" >>, << "d", "o", "n", "'", "t", " ",
             "c", "a", "l", "l" >>, << "s", "t", "o", "p", " ", "c", "a", "l", "l", "i", "n",
             "g" >>, << "r", "e", "m", "o", "v", "e", " ", "m", "e" >> },
       { << "b", "u", "s", "y" >>, << "c", "a", "n", "t", " ", "t", "a", "l", "k" >>, << "c",
             "a", "n", "'", "t", " ", "t", "a", "l", "k" >>, << "b", "a", "d", " ", "t", "i",
             "m", "e" >> } >>

\* re.search(r'\b(...)\b', t): a phrase with a word boundary on each side
SearchWord(phrases, t) ==
    \E p \in phrases : \E i \in 1..Len(t) :
        /\ MatchAt(p, t, i)
        /\ ~IsWordChar(At(t, i - 1))
        /\ ~IsWordChar(At(t, i + Len(p)))

\* one entry of the loop of lines 196-201
Disinterested(entry) ==
    /\ entry.role = "user"
    /\ \E k \in 1..Len(not_interested_patterns) :
          SearchWord(not_interested_patterns[k], Lower(entry.text))

\* a check that looks at the last entry only
NotInterestedLastOnly(trs) == trs # <<>> /\ Disinterested(trs[Len(trs)])

_check_not_interested_patterns(trs) == \E i \in 1..Len(trs) : Disinterested(trs[i])

(***************************************************************************)
(* extract_outcome_from_transcripts, lines 206-304.  The confidence is     *)
(* counted in tenths: 0.5, + 0.3, + 0.2 are 5, + 3, + 2 (in Python's       *)
(* floats 0.5 + 0.2 >= 0.7 and 0.5 + 0.3 + 0.2 = 1.0).                     *)
(***************************************************************************)
schedule_keywords ==
    { << "y", "o", "u", " ", "a", "r", "e", " ", "a", "l", "l", " ", "s", "e", "t" >>, << "y",
          "o", "u", "'", "r", "e", " ", "a", "l", "l", " ", "s", "e", "t" >>, << "s", "c", "h",
          "e", "d", "u", "l", "e", "d" >>, << "g", "e", "t", " ", "a", " ", "c", "a", "l", "l" >>,
      << "w", "i", "l", "l", " ", "c", "a", "l", "l" >>, << "c", "a", "l", "l", "b", "a", "c",
            "k" >>, << "i", "n", "t", "e", "r", "v", "i", "e", "w" >>, << "a", "p", "p", "o",
            "i", "n", "t", "m", "e", "n", "t" >>, << "c", "o", "n", "f", "i", "r", "m", "e", "d" >>,
      << "b", "o", "o", "k", "e", "d" >> }

ScheduledThreshold == 7    \* best_confidence >= 0.7

\* ExtractedOutcome(...), lines 27-33; raises: the call raised instead
ExtractedOutcome(date, time, outcome, notes, confidence) ==
    [raises |-> FALSE, callback_date |-> date, callback_time |-> time,
     outcome |-> outcome, notes |-> notes, confidence |-> confidence]

Raises == [ExtractedOutcome(NoText, NoText, "none", NoText, 0) EXCEPT !.raises = TRUE]

\* lines 246-271: one agent entry, best is [date, time, confidence]
AgentStep(entry, confirmed, reference_date, best) ==
    LET text_lower == Lower(entry.text)
        has_schedule_keyword == \E kw \in schedule_keywords : Contains(kw, text_lower)
        confidence ==
            5 + (IF has_schedule_keyword THEN 3 ELSE 0) + (IF confirmed THEN 2 ELSE 0)
    IN TheOne({
         IF (found.date # NoText \/ found.time # NoText) /\ confidence > best.confidence
           THEN [date |-> IF found.date # NoText THEN found.date ELSE best.date,
                 time |-> IF found.time # NoText THEN found.time ELSE best.time,
                 confidence |-> confidence]
           ELSE best
         : found \in { _extract_date_time_from_text(entry.text, reference_date) } })

RECURSIVE AgentPass(_, _, _, _, _)
\* line 245: for entry in reversed(agent_entries), entry k comes next
AgentPass(agent_entries, k, confirmed, reference_date, best) ==
    IF k = 0 THEN best
    ELSE TheOne({ AgentPass(agent_entries, k - 1, confirmed, reference_date, next) :
                    next \in { AgentStep(agent_entries[k], confirmed, reference_date, best) } })

\* lines 276-280: one user entry
UserStep(entry, reference_date, best) ==
    TheOne({
      [best EXCEPT
         !.date = IF found.date # NoText /\ best.date = NoText THEN found.date ELSE best.date,
         !.time = IF found.time # NoText /\ best.time = NoText THEN found.time ELSE best.time]
      : found \in { _extract_date_time_from_text(entry.text, reference_date) } })

RECURSIVE UserPass(_, _, _, _)
\* line 275: for entry in user_entries, entry k comes next
UserPass(user_entries, k, reference_date, best) ==
    IF k > Len(user_entries) THEN best
    ELSE TheOne({ UserPass(user_entries, k + 1, reference_date, next) :
                    next \in { UserStep(user_entries[k], reference_date, best) } })

\* ", ".join(notes_parts)
JoinComma(parts) ==
    IF parts = <<>> THEN NoText
    ELSE IF Len(parts) = 1 THEN parts[1]
    ELSE parts[1] \o << ",", " " >> \o parts[2]

\* "User expressed disinterest", "Date: " and "Time: "
DisinterestNote ==
    << "U", "s", "e", "r", " ", "e", "x", "p", "r", "e", "s", "s", "e", "d", " ", "d", "i", "s", "i", "n", "t", "e", "r", "e", "s", "t" >>

DateLabel == << "D", "a", "t", "e", ":",
                       " " >>

TimeLabel == << "T", "i", "m", "e", ":",
                       " " >>

\* lines 282-304: the outcome, the notes and the result
OutcomeOf(best) ==
    LET outcome ==
            IF best.date # NoText /\ best.time # NoText
                 /\ best.confidence >= ScheduledThreshold THEN "scheduled"
            ELSE IF best.date # NoText \/ best.time # NoText THEN "partially_scheduled"
            ELSE "unknown"
        notes_parts ==
            (IF best.date # NoText THEN << DateLabel \o best.date >> ELSE <<>>)
            \o (IF best.time # NoText THEN << TimeLabel \o best.time >> ELSE <<>>)
    IN ExtractedOutcome(best.date, best.time, outcome, JoinComma(notes_parts),
                        best.confidence)

extract_outcome_from_transcripts(trs, reference_date) ==
    IF trs = <<>> THEN ExtractedOutcome(NoText, NoText, "no_conversation", NoText, 0)
    ELSE IF _check_not_interested_patterns(trs)
      THEN ExtractedOutcome(NoText, NoText, "not_interested", DisinterestNote, 8)
    ELSE IF \E i \in 1..Len(trs) :
               /\ trs[i].role \in {"agent", "user"}
               /\ _parse_date(Lower(trs[i].text), reference_date) = ValueError
      THEN Raises
    ELSE LET agent_entries == SelectSeq(trs, LAMBDA e : e.role = "agent")
             user_entries == SelectSeq(trs, LAMBDA e : e.role = "user")
             NoBest == [date |-> NoText, time |-> NoText, confidence |-> 0]
         IN TheOne({ OutcomeOf(best) :
               best \in { UserPass(user_entries, 1, reference_date, agent_best) :
                   agent_best \in { AgentPass(agent_entries, Len(agent_entries), confirmed,
                                              reference_date, NoBest) :
                                     confirmed \in { _check_confirmation_patterns(trs) } } } })

(***************************************************************************)
(* The transcripts handed to extract_outcome_from_transcripts: at most     *)
(* MaxEntries entries drawn from a pool, at two reference timestamps.      *)
(***************************************************************************)
\* TranscriptEntry(role, text, timestamp), lines 18-23; the timestamp is
\* never read
TranscriptEntry(role, text) == [role |-> role, text |-> text]

AllSetJanuary30 == TranscriptEntry("agent", << "Y", "o", "u", " ", "a", "r", "e", " ", "a",
      "l", "l", " ", "s", "e", "t", " ", "f", "o", "r", " ", "J", "a", "n", "u", "a", "r", "y",
      " ", "3", "0", "t", "h", " ", "a", "t", " ", "5", " ", "p", "m" >>)

UserYes == TranscriptEntry("user", << "Y", "e", "s" >>)

UserNotInterested == TranscriptEntry("user", << "I", "'", "m", " ", "n", "o", "t", " ", "i",
      "n", "t", "e", "r", "e", "s", "t", "e", "d", ",", " ", "p", "l", "e", "a", "s", "e", " ",
      "s", "t", "o", "p", " ", "c", "a", "l", "l", "i", "n", "g" >>)

NineAmMarch3 == TranscriptEntry("agent", << "O", "r", " ", "9", " ", "a", "m", " ", "o", "n",
      " ", "M", "a", "r", "c", "h", " ", "3", "?" >>)

DayAfterTomorrow == TranscriptEntry("user", << "d", "a", "y", " ", "a", "f", "t", "e", "r",
      " ", "t", "o", "m", "o", "r", "r", "o", "w" >>)

DayAfter == TranscriptEntry("user", << "d", "a", "y", " ", "a", "f", "t", "e", "r" >>)

Today == TranscriptEntry("user", << "t", "o", "d", "a", "y" >>)

December31st == TranscriptEntry("user", << "D", "e", "c", "e", "m", "b", "e", "r", " ", "3",
      "1", "s", "t" >>)

EntryPool ==
    { AllSetJanuary30, UserYes, UserNotInterested,
      TranscriptEntry("agent", << "I", "s", " ", "t", "h", "i", "s", " ", "a", " ", "b", "a",
            "d", " ", "t", "i", "m", "e", "?" >>),
      TranscriptEntry("user", << "t", "o", "m", "o", "r", "r", "o", "w", " ", "4", ":", "0",
            "0", " ", "p", ".", "m", "." >>),
      TranscriptEntry("user", << "B", "u", "s", "i", "n", "e", "s", "s", " ", "i", "s", " ",
            "f", "i", "n", "e" >>),
      NineAmMarch3, DayAfterTomorrow, DayAfter, Today, December31st }

January28 == [year |-> 2026, month |-> 1, day |-> 28, hour |-> 0]

ReferenceDates == { January28, [year |-> 2026, month |-> 12, day |-> 31, hour |-> 10] }

TranscriptsUpTo(n) == UNION { [1..k -> EntryPool] : k \in 0..n }

ProcessorSamples ==
    [transcripts : TranscriptsUpTo(MaxEntries), reference_date : ReferenceDates]

ProcessorInit ==
    /\ SessionInit(FairConfig, FairEnvs)
    /\ sample \in ProcessorSamples
    /\ extracted = <<>>

\* result = extract_outcome_from_transcripts(sample_transcripts, reference_date)
ExtractOutcome ==
    /\ extracted = <<>>
    /\ extracted' =
         << extract_outcome_from_transcripts(sample.transcripts, sample.reference_date) >>
    /\ UNCHANGED << cfg, env, sample, handled, hpc, rpc, mpc, inCount, msgs, wsClose,
                    idVars, inVars, readerVars, monVars, tdVars >>

ProcessorNext == ExtractOutcome

ProcessorSpec == ProcessorInit /\ [][ProcessorNext]_vars

\* C16: for the transcript agent "You are all set for January 30th at 5 pm",
\* user "Yes" and the reference date 2026-01-28, the extraction returns
\* callback_date "2026-01-30", callback_time "17:00", outcome "scheduled" and a
\* confidence of at least 0.7.
C16_SampleTranscriptOutcome ==
    ( /\ sample = [transcripts |-> << AllSetJanuary30, UserYes >>,
                   reference_date |-> January28]
      /\ extracted # <<>> )
    => /\ ~extracted[1].raises
       /\ extracted[1].callback_date = << "2", "0", "2", "6", "-", "0", "1", "-", "3", "0" >>
       /\ extracted[1].callback_time = << "1", "7", ":", "0", "0" >>
       /\ extracted[1].outcome = "scheduled"
       /\ extracted[1].confidence >= ScheduledThreshold

\* C17: whenever some user entry of the transcript matches a disinterest
\* pattern, at whatever position and whatever the other entries say, the
\* extraction returns outcome "not_interested" with no callback date and no
\* callback time.
C17_DisinterestWins ==
    ( /\ extracted # <<>>
      /\ \E i \in 1..Len(sample.transcripts) : Disinterested(sample.transcripts[i]) )
    => /\ ~extracted[1].raises
       /\ extracted[1].outcome = "not_interested"
       /\ extracted[1].callback_date = NoText
       /\ extracted[1].callback_time = NoText

\* the user declined first, then the agent announced a date and time and the
\* user said yes
C17_Witness ==
    /\ sample.transcripts = << UserNotInterested, AllSetJanuary30, UserYes >>
    /\ extracted # <<>>
    /\ extracted[1].outcome = "not_interested"

\* the paths to teardown that the supervisor does not take
OtherPaths == {"stop", "conn_lost", "exception"}

\* C18: once the session was torn down by a stop event, a lost connection or an
\* exception, the supervisor closes neither the backend connection nor the
\* telephony connection.
C18_NoSupervisorCloseAfterTeardown ==
    [][(hpc = "done" /\ tdPath \in OtherPaths)
         => (wsClose' = wsClose /\ gemClose' = gemClose)]_vars

\* C19: on every step that leaves ACTIVE, by a stop event, the end of the
\* stream, a lost connection or an exception, the reader task and the
\* supervisor task are both finished or cancelled.
C19_TasksCancelledOnExit ==
    [][(Active /\ hpc' = "done")
         => (rpc' \in {"ended", "cancelled"} /\ mpc' \in {"done", "cancelled"})]_vars

(***************************************************************************)
(* The session under the scheduling of the event loop, every task          *)
(* included: the supervisor runs, a send that was started returns, the     *)
(* handler goes on when what it awaits is there (the connect, a chunk to   *)
(* send, the end of a stream that was closed locally).  What the peers do  *)
(* is not owed: a telephony message, a backend message, a disconnect.      *)
(***************************************************************************)
ReaderEndSpec ==
    /\ FairInit
    /\ [][Next]_vars
    /\ WF_vars(Monitor)
    /\ WF_vars(ReaderSendClear \/ ReaderSendChunk)
    /\ WF_vars(ConnectResolve \/ AwaitConnect \/ FlushBuffered \/ SendChunkToAI)
    /\ WF_vars(TelStreamEnd /\ ~wsOpen)

\* C20: once the reader loop has ended while the session is ACTIVE and
\* end_after_turn is not set, the handler reaches its teardown, whether or not
\* the telephony peer sends anything more.
C20_ReaderEndLeadsToTeardown ==
    (Active /\ rpc = "ended" /\ ~end_after_turn) ~> (hpc = "done")

\* C21: when the supervisor declares the audio complete before the ceiling,
\* its last three polls each saw the output buffer empty; and a poll that sees
\* the buffer non-empty sets the count of consecutive empty polls to zero.
C21_DebounceThreeEmptyPolls ==
    /\ [](completedBy = "debounce" =>
             /\ Len(polls) = DebounceCount
             /\ \A i \in 1..Len(polls) : polls[i])
    /\ [][(mpc = "poll" /\ waited' = waited + 1 /\ output_buffer # <<>>)
            => empty_count' = 0]_vars

\* the supervisor saw the buffer non-empty, then empty three times
C21_Witness ==
    /\ completedBy = "debounce"
    /\ waited > DebounceCount - 1
    /\ polls = << TRUE, TRUE, TRUE >>
    /\ empty_count = DebounceCount

\* C22: closed implies end_after_turn.  closed is set by the supervisor only,
\* at the end of its polls; while end_after_turn is false the supervisor is
\* idle, has changed nothing and closed nothing; and the step of the reader
\* that sets end_after_turn sets no closed flag and closes no connection.
C22_ClosedOnlyAfterEndRequested ==
    /\ [](closed => end_after_turn)
    /\ [](~end_after_turn =>
             /\ mpc \in {"none", "watch", "cancelled"}
             /\ completedBy = "none"
             /\ "monitor" \notin gemClose
             /\ MonitorWsClose \notin wsClose)
    /\ [][closed' # closed => (mpc = "poll" /\ mpc' = "close_gemini" /\ closed')]_vars
    /\ [][(~end_after_turn /\ end_after_turn')
            => /\ rpc = "run"
               /\ closed' = closed
               /\ wsClose' = wsClose
               /\ gemClose' = gemClose
               /\ gconn' = gconn
               /\ wsOpen' = wsOpen]_vars

\* the reader set end_after_turn on a farewell, the supervisor closed the call
C22_Witness ==
    /\ closed
    /\ end_after_turn
    /\ transcripts # <<>>
    /\ "monitor" \in gemClose
    /\ MonitorWsClose \in wsClose

\* C23: every media message sent to the telephony peer carries exactly
\* AUDIO_BUFFER_SAMPLES_OUTPUT samples, taken from the front of the output
\* buffer; and whenever the reader has finished handling an audio message,
\* its sends having succeeded or failed, the output buffer holds fewer than
\* AUDIO_BUFFER_SAMPLES_OUTPUT samples.
C23_OutboundChunking ==
    /\ [](\A i \in 1..Len(telSent) :
             telSent[i].event = "media"
                => Len(telSent[i].chunk) = AUDIO_BUFFER_SAMPLES_OUTPUT)
    /\ [][(rpc = "drain" /\ Len(telSent') = Len(telSent) + 1)
            => telSent'[Len(telSent')].chunk
                 = Take(output_buffer, AUDIO_BUFFER_SAMPLES_OUTPUT)]_vars
    /\ [][(rpc = "drain" /\ rpc' = "run")
            => Len(output_buffer') < AUDIO_BUFFER_SAMPLES_OUTPUT]_vars

\* C24: once end_after_turn is set and the backend sends no more audio (the
\* reader has ended before the supervisor's wait begins), the supervisor
\* completes by debounce, not by the ceiling, unless the handler ends the call
\* first, whatever number of samples the backend produced.
C24_DebounceWhateverTheTotal ==
    (end_after_turn /\ rpc = "ended" /\ mpc = "grace")
        ~> \/ completedBy = "debounce"
           \/ completedBy = "none" /\ (mpc = "cancelled" \/ hpc = "done")

\* C25: while the flush of the buffered pre-identity media is under way (the
\* handler awaits the send of a chunk and buffered messages are left), the
\* reader and the supervisor are not running: neither takes a step.
C25_NoPumpingBeforeFlush ==
    [][(hpc = "drain" /\ buffered_media # <<>>)
         => /\ rpc' = rpc
            /\ mpc' = mpc
            /\ outCount' = outCount
            /\ output_buffer' = output_buffer
            /\ end_after_turn' = end_after_turn
            /\ transcripts' = transcripts
            /\ telSent' = telSent]_vars

\* C26: until the backend connect started at the accept has resolved
\* successfully, no audio has been sent to the backend and neither the reader
\* nor the supervisor has been started; the session becomes ACTIVE only from a
\* connected backend, and a failed connect takes the handler from its wait
\* straight to the teardown.
C26_NothingBeforeConnected ==
    /\ [](gconn \in {"connecting", "failed"}
            => aiSent = <<>> /\ rpc = "none" /\ mpc = "none" /\ ~Active)
    /\ [](tdPath = "connect_failed"
            => aiSent = <<>> /\ rpc = "none" /\ mpc = "none" /\ hpc = "done")
    /\ [][(~Active /\ Active') => gconn = "connected"]_vars
    /\ [][(hpc = "connect_wait" /\ gconn = "failed" /\ hpc' # hpc)
            => (hpc' = "done" /\ tdPath' = "connect_failed")]_vars

\* the connect failed with media buffered for the backend: torn down, nothing started
C26_Witness ==
    /\ tdPath = "connect_failed"
    /\ hpc = "done"
    /\ buffered_media # <<>>
    /\ start_msg # <<>>
    /\ aiSent = <<>>
    /\ rpc = "none"
    /\ mpc = "none"

\* C27: the wait for identity lasts no longer than the one fixed timeout,
\* counted from the accept, however many messages that carry no identity
\* arrive meanwhile.
C27_IdentityPhaseBounded ==
    (hpc = "await_identity") => idClock.phase <= RecvTimeoutTicks

\* C28: awaiting identity with an identity inferred from a media message and
\* no start message, a receive that times out closes the telephony connection
\* with the policy code 1008 and the session never becomes ACTIVE, while the
\* last iteration of the loop leaves it for the connect wait, and from there
\* for ACTIVE, under the inferred identity.
C28_TimeoutOrCeilingWithFallback ==
    /\ [][(hpc = "await_identity" /\ ucid # UNKNOWN /\ tdPath' = "timeout")
            => /\ hpc' = "done"
               /\ [by |-> "handler", code |-> PolicyCloseCode,
                   reason |-> "Timeout waiting for start event"] \in wsClose'
               /\ rpc' = "none" /\ mpc' = "none" /\ aiSent' = <<>>]_vars
    /\ [](tdPath = "timeout" => hpc = "done" /\ rpc = "none" /\ mpc = "none")
    /\ [][(/\ hpc = "await_identity"
           /\ attempts = MaxStartMessages - 1
           /\ attempts' = 0
           /\ start_msg' = <<>>
           /\ ucid' # UNKNOWN
           /\ tdPath' \notin {"timeout", "conn_lost", "terminate"})
            => /\ hpc' = "connect_wait"
               /\ ucid' = "media.stream_sid"
               /\ tdPath' = "none"
               /\ wsClose' = wsClose]_vars
    /\ [](Active /\ start_msg = <<>> => ucid = "media.stream_sid")

\* ACTIVE under the inferred identity, no start message ever received
C28_Witness ==
    /\ Active
    /\ start_msg = <<>>
    /\ ucid = "media.stream_sid"
    /\ rpc = "run"
    /\ wsClose = {}

\* C29: the reader that received an interrupted signal goes on with an empty
\* agent accumulator whether the clear command could be sent or not; no agent
\* entry is committed from an accumulator that still holds a fragment received
\* before the signal; the audio of the message that carries the signal is not
\* appended to the output buffer.
C29_InterruptDropsFragments ==
    /\ [][(rpc = "clear_send" /\ rpc' \notin {"clear_send", "cancelled"})
            => /\ rpc' = "run"
               /\ current_agent_transcript' = <<>>
               /\ staleFragments' = 0]_vars
    /\ [][(\E i \in (Len(transcripts) + 1)..Len(transcripts') :
              transcripts'[i].role = "agent")
            => staleFragments = 0]_vars
    /\ [](rpc \in {"run", "drain"} => staleFragments = 0)
    /\ [][(rpc = "run" /\ rpc' = "clear_send")
            => output_buffer' = <<>> /\ intrMark' = outCount']_vars
    /\ [](\A j \in 1..Len(output_buffer) : output_buffer[j] > intrMark)

\* the signal came with audio and found fragments accumulated, the clear
\* command could not be sent, the reader is back in its loop
C29_Witness ==
    /\ rpc = "run"
    /\ intrFragments > 0
    /\ current_agent_transcript = <<>>
    /\ \A i \in 1..Len(telSent) : telSent[i].event # "clear"
    /\ outCount > 0
    /\ intrMark = outCount
    /\ output_buffer = <<>>
    /\ wsOpen

(***************************************************************************)
(* The transcript part of _gemini_reader, lines 332-387, on the messages   *)
(* of a backend that sends transcriptions: every flag setting, every       *)
(* sequence of at most MaxMsgs messages without an interrupted signal.     *)
(***************************************************************************)
TranscriptMessages == { m \in TextMessages : ~m.intr }

TranscriptInit ==
    /\ SessionInit(Config, CallEnvs)
    /\ env.ai = "text"
    /\ sample = NoSample
    /\ extracted = <<>>

\* one message of the backend through lines 332-387
HandleTranscripts ==
    /\ Len(handled) < MaxMsgs
    /\ \E m \in TranscriptMessages :
         LET s == AfterTranscripts(m,
                    [acc |-> current_agent_transcript, trs |-> transcripts,
                     eat |-> end_after_turn])
         IN /\ current_agent_transcript' = s.acc
            /\ transcripts' = s.trs
            /\ end_after_turn' = s.eat
            /\ handled' = Append(handled, m)
    /\ UNCHANGED << cfg, env, sample, extracted, hpc, rpc, mpc, inCount, msgs, wsClose,
                    idVars, inVars, monVars, tdVars, output_buffer, outCount, telSent,
                    intrMark, intrPos, intrFragments, staleFragments, toolLog >>

TranscriptNext == HandleTranscripts

TranscriptSpec == TranscriptInit /\ [][TranscriptNext]_vars

\* the agent entries among the entries a step appended to the transcript
AgentEntriesAdded(before, after) ==
    LET IsAgent(e) == e.role = "agent"
    IN SelectSeq(SubSeq(after, Len(before) + 1, Len(after)), IsAgent)

\* C30: with SAVE_TRANSCRIPTS on, whatever DEBUG and LOG_TRANSCRIPTS are, the
\* fragment of a message is appended to the accumulator; a message marked
\* finished that finds the accumulator non-empty commits exactly one agent
\* entry, the stripped concatenation of the fragments, when that is not
\* blank, and leaves the accumulator empty; no other message commits an
\* agent entry.
C30_FragmentsCommittedOnFinished ==
    [][(cfg.SAVE_TRANSCRIPTS /\ handled' # handled)
         => LET m == handled'[Len(handled')]
                acc == IF m.outT /\ m.out # <<>>
                         THEN Append(current_agent_transcript, m.out)
                         ELSE current_agent_transcript
                added == AgentEntriesAdded(transcripts, transcripts')
            IN IF m.outT /\ m.fin /\ acc # <<>>
                 THEN /\ current_agent_transcript' = <<>>
                      /\ added = IF Strip(Join(acc)) # <<>>
                                   THEN << [role |-> "agent", text |-> Strip(Join(acc))] >>
                                   ELSE <<>>
                 ELSE /\ current_agent_transcript' = acc
                      /\ added = <<>>]_vars

\* C31: session.transcripts is append-only.  Every step of every task leaves
\* the entries it holds unchanged and in place; a step adds entries at the end
\* only, at most the agent entry and then the user entry of the message
\* handled, the user entry holding that one fragment, stripped.
C31_TranscriptAppendOnly ==
    /\ [][IsPrefix(transcripts, transcripts')]_vars
    /\ [][LET added == SubSeq(transcripts', Len(transcripts) + 1, Len(transcripts'))
          IN /\ Len(added) <= 2
             /\ Len(added) > 0 => rpc = "run"
             /\ \A i \in 1..Len(added) :
                  added[i].role = "user"
                    => /\ i = Len(added)
                       /\ \E u \in UserTexts : added[i].text = Strip(u)
             /\ Len(added) = 2 => added[1].role = "agent"]_vars

\* an agent entry, then a user entry, then an interruption handled: both
\* entries in place
C31_Witness ==
    /\ Len(transcripts) = 2
    /\ transcripts[1].role = "agent"
    /\ transcripts[2].role = "user"
    /\ \E i \in 1..Len(telSent) : telSent[i].event = "clear"
    /\ rpc = "run"

\* C32: session.closed and session.end_after_turn are false until the reader
\* and the supervisor run, and no step of any task, the teardown included,
\* sets either of them back to false once it is true.
C32_FlagsMonotonic ==
    /\ [](rpc = "none" => ~closed /\ ~end_after_turn)
    /\ [][closed => closed']_vars
    /\ [][end_after_turn => end_after_turn']_vars

\* both flags still set once the handler has gone through its teardown
C32_Witness ==
    /\ closed
    /\ end_after_turn
    /\ hpc = "done"
    /\ msgs = MaxMsgs

\* C33: farewell detection sets end_after_turn only on a finalized agent
\* utterance of fewer than 100 characters: the entry committed by the step
\* that sets the flag is shorter than the threshold.
C33_FarewellBelowThreshold ==
    [][(~end_after_turn /\ end_after_turn')
         => /\ Len(transcripts') = Len(transcripts) + 1
            /\ Len(transcripts'[Len(transcripts')].text) < FarewellMaxLen]_vars

(***************************************************************************)
(* The tool calls of the backend, lines 309-330: function calls that carry *)
(* an id, one or two in a message; the calls are one message shorter.      *)
(***************************************************************************)
ToolEnvs ==
    [pre : {MaxStartMessages}, msgs : {MaxMsgs - 1}, ai : {"tools"}, starts : {"few"},
     timed : {FALSE}]
      \cup TimedEnvs

ToolInit == InitWith(FairConfig, ToolEnvs)

ToolSpec == ToolInit /\ [][Next]_vars

\* C34: every end_call function call received is followed at once by exactly
\* one toolResponse with its id, sent or failed, and no other toolResponse is
\* sent; end_after_turn is set exactly when an end_call was received, whether
\* the responses could be sent or not; the reader runs on after the message.
C34_EndCallAnswered ==
    /\ [](\A i \in 1..Len(toolLog) :
            /\ (toolLog[i].kind = "call" /\ toolLog[i].name = "end_call")
                 => /\ i < Len(toolLog)
                    /\ toolLog[i + 1].kind = "response"
                    /\ toolLog[i + 1].id = toolLog[i].id
            /\ toolLog[i].kind = "response"
                 => /\ i > 1
                    /\ toolLog[i - 1].kind = "call"
                    /\ toolLog[i - 1].name = "end_call"
                    /\ toolLog[i - 1].id = toolLog[i].id)
    /\ [](env.ai = "tools"
            => (end_after_turn <=> \E i \in 1..Len(toolLog) : toolLog[i].name = "end_call"))
    /\ [][toolLog' # toolLog => rpc = "run" /\ rpc' = "run"]_vars

\* a message of two end_call calls, the first response failed, the second
\* sent; the reader then handled another message
C34_Witness ==
    /\ Len(toolLog) >= 4
    /\ toolLog[1].kind = "call" /\ toolLog[1].name = "end_call" /\ toolLog[1].id = "a"
    /\ toolLog[2].kind = "response" /\ toolLog[2].id = "a" /\ ~toolLog[2].sent
    /\ toolLog[3].kind = "call" /\ toolLog[3].name = "end_call" /\ toolLog[3].id = "b"
    /\ toolLog[4].kind = "response" /\ toolLog[4].id = "b" /\ toolLog[4].sent
    /\ end_after_turn
    /\ outCount > 0
    /\ rpc \in {"run", "drain"}

\* C35: for a non-empty transcript without a disinterest match the extraction
\* returns "scheduled" only with a date, a time and a confidence of at least
\* 0.7, "partially_scheduled" only with exactly one of date and time, and
\* "unknown" in every other case.
C35_OutcomeByDateAndTime ==
    (/\ extracted # <<>>
     /\ sample.transcripts # <<>>
     /\ ~_check_not_interested_patterns(sample.transcripts)
     /\ ~extracted[1].raises)
      => LET r == extracted[1]
             both == r.callback_date # NoText /\ r.callback_time # NoText
             one == (r.callback_date # NoText) # (r.callback_time # NoText)
         IN /\ r.outcome \in {"scheduled", "partially_scheduled", "unknown"}
            /\ r.outcome = "scheduled" => both /\ r.confidence >= ScheduledThreshold
            /\ r.outcome = "partially_scheduled" => one
            /\ r.outcome = "unknown"
                 => ~(both /\ r.confidence >= ScheduledThreshold) /\ ~one

\* C36: the callback date is the date of the most recent agent entry in which
\* a date is found, and the callback time the time of the most recent agent
\* entry in which a time is found, whatever older agent entries hold.
C36_NewestAgentEntryWins ==
    (/\ extracted # <<>>
     /\ ~extracted[1].raises
     /\ ~_check_not_interested_patterns(sample.transcripts))
      => LET trs == sample.transcripts
             Found(i) == _extract_date_time_from_text(trs[i].text, sample.reference_date)
             agents == { i \in 1..Len(trs) : trs[i].role = "agent" }
             dated == { i \in agents : Found(i).date # NoText }
             timed == { i \in agents : Found(i).time # NoText }
             Newest(S) == CHOOSE i \in S : \A j \in S : j <= i
         IN /\ dated # {} => extracted[1].callback_date = Found(Newest(dated)).date
            /\ timed # {} => extracted[1].callback_time = Found(Newest(timed)).time

\* C37: the time the extraction returns is absent or a 24-hour HH:MM text with
\* the hour in 00..23 and the minute in 00..59, and for the one agent entry
\* "You are all set for January 30th at 5 pm" it is the hour stated before
\* "pm", 17:00, not the day of the month.
C37_TimeIsValidAndStated ==
    (extracted # <<>> /\ ~extracted[1].raises)
      => LET t == extracted[1].callback_time
         IN /\ t # NoText
                 => /\ Len(t) = 5
                    /\ t[3] = ":"
                    /\ \A i \in {1, 2, 4, 5} : IsDigit(t[i])
                    /\ 10 * DigitVal(t[1]) + DigitVal(t[2]) <= 23
                    /\ 10 * DigitVal(t[4]) + DigitVal(t[5]) <= 59
            /\ sample.transcripts = << AllSetJanuary30 >> => t = << "1", "7", ":", "0", "0" >>

\* C38: a transcript of one entry whose text is a relative day word resolves
\* to the reference date plus the documented offset: "today" +0, "day after"
\* +2 and "day after tomorrow" +2 days.
C38_RelativeDayOffsets ==
    (extracted # <<>> /\ ~extracted[1].raises)
      => LET d == extracted[1].callback_date
             Plus(n) == strftime(AddDays(sample.reference_date, n))
             Days(name) ==
                 RELATIVE_DAYS[CHOOSE i \in 1..Len(RELATIVE_DAYS) :
                                  RELATIVE_DAYS[i].name = name].days
         IN /\ sample.transcripts = << Today >> => d = Plus(Days(Today.text))
            /\ sample.transcripts = << DayAfter >> => d = Plus(Days(DayAfter.text))
            /\ sample.transcripts = << DayAfterTomorrow >>
                 => d = Plus(Days(DayAfterTomorrow.text))

\* C39: a month and day equal to the day of the reference timestamp resolve
\* to the reference year, whatever its time of day, and a month and day after
\* it resolve to the reference year as well.
C39_SameDayKeepsTheYear ==
    (/\ extracted # <<>>
     /\ ~extracted[1].raises
     /\ sample.transcripts = << December31st >>)
      => extracted[1].callback_date
           = strftime([year |-> sample.reference_date.year, month |-> 12, day |-> 31,
                       hour |-> 0])

====
